---- MODULE Spec2Model ----
(***************************************************************************)
(* Model of crates/ffmpeg/fftools/simple_ffprobe.c: the report formatter   *)
(* (dump_metadata, print_fps, get_bit_rate, print_codec,                   *)
(* dump_stream_format, dump_format) and the CLI wrapper (open_input_file,  *)
(* main).                                                                  *)
(*                                                                         *)
(* Text conventions.  Everything written with av_log is a sequence of      *)
(* tokens, each a string; the concatenation of the tokens is the text.     *)
(* The line break is always the token "\n" on its own.  A C string (a      *)
(* metadata key or value) is a sequence of bytes, each byte a string: a    *)
(* printable byte is the one-character string, the five bytes that         *)
(* dump_metadata splits on are the named strings BS, LF, VT, FF, CR.  The  *)
(* terminating NUL is the end of the sequence.                             *)
(***************************************************************************)
EXTENDS Integers, Sequences, FiniteSets, TLC

VARIABLES
    pc,         \* position of the running program / of the function under test
    argv,       \* main: the argument vector, argv[1] is TLA+ index 2
    file,       \* what avformat_open_input + find_stream_info build for the path
    fmt_ctx,    \* main: the AVFormatContext, NULL until opened
    out,        \* the av_log sink: sequence of [site, n, txt]
    console,    \* stdout of main (printf)
    printed,    \* dump_format: the marker array, NULL when not allocated
    i,          \* dump_format: loop variable of the final streams pass
    j,          \* dump_format: loop variable over programs
    k,          \* dump_format: loop variable over a program's stream indexes
    total,      \* dump_format: sum of nb_stream_indexes
    exit_code,  \* main: the exit status, NoExit while running
    calls,      \* history: one record per allocation attempted
    fails,      \* history: number of failed allocations so far
    arg         \* input of the function under test (function specifications)

vars == <<pc, argv, file, fmt_ctx, out, console, printed, i, j, k, total,
          exit_code, calls, fails, arg>>

\* a pointer is a sequence: <<>> is NULL, <<x>> points to x
NULL == <<>>
NoExit == "running"

(***************************************************************************)
(* Bounds of the model                                                     *)
(***************************************************************************)
\* longest metadata value enumerated byte by byte
MaxValueLen == 3
\* most entries in an enumerated metadata mapping
MaxEntries == 2
\* most streams, programs and chapters of an enumerated container
MaxStreams == 2
MaxPrograms == 2
MaxChapters == 1
\* most stream indexes listed by the programs of a container, all together
MaxRefs == 2
\* most allocations that fail in one run
MaxFails == 1
\* the small rates n/d enumerated for print_fps have n <= MaxRateNum
MaxRateNum == 30
\* the enumerated dispositions have at most MaxFlags flags set, or at most
\* MaxFlags flags clear
MaxFlags == 2

(***************************************************************************)
(* Bytes and small helpers                                                 *)
(***************************************************************************)
NUL == "0x00"
BS == "0x08"
LF == "0x0A"
VT == "0x0B"
FF == "0x0C"
CR == "0x0D"

\* the reject set of strcspn(p, "\x8\xa\xb\xc\xd")
Reject == {BS, LF, VT, FF, CR}

FFMIN(a, b) == IF a > b THEN b ELSE a

\* n copies of the token t
RECURSIVE Rep(_, _)
Rep(t, n) == IF n <= 0 THEN <<>> ELSE <<t>> \o Rep(t, n - 1)

\* the sequence s without its first n elements (p += n)
Drop(s, n) == SubSeq(s, n + 1, Len(s))

\* strcspn: length of the longest prefix of p holding no byte of reject
strcspn(p, reject) ==
    IF \E n \in 1..Len(p) : p[n] \in reject
    THEN (CHOOSE n \in 1..Len(p) :
             /\ p[n] \in reject
             /\ \A n2 \in 1..(n - 1) : p[n2] \notin reject) - 1
    ELSE Len(p)

LowerCase == <<"a","b","c","d","e","f","g","h","i","j","k","l","m",
               "n","o","p","q","r","s","t","u","v","w","x","y","z">>
UpperCase == <<"A","B","C","D","E","F","G","H","I","J","K","L","M",
               "N","O","P","Q","R","S","T","U","V","W","X","Y","Z">>

\* av_toupper on one byte
av_toupper(c) ==
    IF \E n \in 1..26 : LowerCase[n] = c
    THEN UpperCase[CHOOSE n \in 1..26 : LowerCase[n] = c]
    ELSE c

AV_DICT_MATCH_CASE == 1

\* the key comparison of av_dict_get: exact under AV_DICT_MATCH_CASE,
\* otherwise byte by byte through av_toupper
KeyMatches(s, key, flags) ==
    /\ Len(s) = Len(key)
    /\ \A n \in 1..Len(key) :
          IF flags = AV_DICT_MATCH_CASE
          THEN s[n] = key[n]
          ELSE av_toupper(s[n]) = av_toupper(key[n])

\* av_dict_get(m, key, NULL, flags): the first matching entry, or NULL.
\* An AVDictionary is the sequence of its entries; the NULL dictionary is <<>>.
\* A pointer result is a sequence: <<>> is NULL, <<e>> points to e.
av_dict_get(m, key, flags) ==
    IF \E n \in 1..Len(m) : KeyMatches(m[n].key, key, flags)
    THEN <<m[CHOOSE n \in 1..Len(m) :
               /\ KeyMatches(m[n].key, key, flags)
               /\ \A n2 \in 1..(n - 1) : ~KeyMatches(m[n2].key, key, flags)]>>
    ELSE <<>>

av_dict_count(m) == Len(m)

\* strcmp(a, b) != 0
strcmp(a, b) == a # b

Language == <<"l","a","n","g","u","a","g","e">>

(***************************************************************************)
(* dump_metadata                                                           *)
(***************************************************************************)
\* "%s  %-16s: " with (indent, key): the key left-justified in 16 columns
KeyPrefix(indent, key) ==
    <<indent, "  ">> \o key \o Rep(" ", 16 - Len(key)) \o <<": ">>

\* a variant that prints the whole run
ChunkWhole(p, len) == SubSeq(p, 1, len)

\* the chunk "%.*s" prints: the first FFMIN(255, len) bytes at p
Chunk(p, len) == SubSeq(p, 1, FFMIN(255, len))


\* a variant that writes no blank for a carriage return
AfterChunkNoBlank(c, indent) ==
    IF c = LF THEN <<"\n">> \o KeyPrefix(indent, <<>>) ELSE <<>>

\* what follows a chunk, by the byte c = *p that ended it
AfterChunk(c, indent) ==
    (IF c = CR THEN <<" ">> ELSE <<>>)
    \o (IF c = LF THEN <<"\n">> \o KeyPrefix(indent, <<>>) ELSE <<>>)

\* the loop  while (*p) { ... }  over a value
RECURSIVE DumpValue(_, _)
DumpValue(p, indent) ==
    IF p = <<>> THEN <<>>
    ELSE LET len == strcspn(p, Reject)
             q   == Drop(p, len)
             c   == IF q = <<>> THEN NUL ELSE Head(q)
         IN  Chunk(p, len) \o AfterChunk(c, indent)
             \o DumpValue(IF q = <<>> THEN q ELSE Tail(q), indent)

\* one tag of the av_dict_iterate loop
DumpTag(tag, indent) ==
    IF strcmp(Language, tag.key)
    THEN KeyPrefix(indent, tag.key) \o DumpValue(tag.value, indent) \o <<"\n">>
    ELSE <<>>

RECURSIVE DumpTags(_, _)
DumpTags(m, indent) ==
    IF m = <<>> THEN <<>>
    ELSE DumpTag(Head(m), indent) \o DumpTags(Tail(m), indent)

\* dump_metadata(ctx, m, indent): the tokens it logs
dump_metadata(m, indent) ==
    IF m # <<>> /\ ~(av_dict_count(m) = 1 /\ av_dict_get(m, Language, 0) # <<>>)
    THEN <<indent, "Metadata:", "\n">> \o DumpTags(m, indent)
    ELSE <<>>

(***************************************************************************)
(* printf conversions                                                      *)
(***************************************************************************)
Digits == <<"0","1","2","3","4","5","6","7","8","9","a","b","c","d","e","f">>

\* the digits of n >= 0 in the given base, at least width of them (zero padded)
RECURSIVE Numeral(_, _, _)
Numeral(n, base, width) ==
    IF n < base /\ width <= 1 THEN Digits[n + 1]
    ELSE Numeral(n \div base, base, width - 1) \o Digits[(n % base) + 1]

Abs(n) == IF n < 0 THEN -n ELSE n

\* "%d"
Dec(n) == IF n < 0 THEN "-" \o Numeral(-n, 10, 1) ELSE Numeral(n, 10, 1)
\* "%02d", "%06d" of n >= 0
DecPad(n, width) == Numeral(n, 10, width)
\* "%x"
Hex(n) == Numeral(n, 16, 1)

\* C integer division and remainder (truncation toward zero)
CDiv(a, b) ==
    IF (a >= 0) = (b > 0) THEN Abs(a) \div Abs(b) ELSE -(Abs(a) \div Abs(b))
CRem(a, b) == a - b * CDiv(a, b)

\* the integer nearest to num/den (den > 0, num >= 0), a tie going to the even
\* one: the result of lrintf, and of printf's %f, in the default rounding mode
RoundHalfEven(num, den) ==
    LET q == num \div den
        r == num % den
    IN  IF 2 * r > den \/ (2 * r = den /\ q % 2 = 1) THEN q + 1 ELSE q

RECURSIVE Pow10(_)
Pow10(n) == IF n = 0 THEN 1 ELSE 10 * Pow10(n - 1)

RECURSIVE Pow2(_)
Pow2(n) == IF n = 0 THEN 1 ELSE 2 * Pow2(n - 1)

\* the binary exponent e of num/den > 0:  2^e <= num/den < 2^(e+1)
RECURSIVE Exp2(_, _)
Exp2(num, den) ==
    IF num >= 2 * den THEN Exp2(num, 2 * den) + 1
    ELSE IF num < den THEN Exp2(2 * num, den) - 1
    ELSE 0

\* num/den scaled by 2^(-e) into [1, 2), as a pair <<numerator, denominator>>
RECURSIVE Scaled(_, _)
Scaled(num, den) ==
    IF num >= 2 * den THEN Scaled(num, 2 * den)
    ELSE IF num < den THEN Scaled(2 * num, den)
    ELSE <<num, den>>

\* binary long division: left more bits of the significand m, the remainder
\* being r; m is kept modulo modulus
RECURSIVE SigStep(_, _, _, _, _)
SigStep(m, r, den, left, modulus) ==
    IF left = 0 THEN [m |-> m, r |-> r]
    ELSE LET b == IF 2 * r >= den THEN 1 ELSE 0
         IN  SigStep((2 * m + b) % modulus, 2 * r - b * den, den, left - 1,
                     modulus)

\* the first bits bits of num/den > 0 and what is left of it
Significand(num, den, bits, modulus) ==
    LET sc == Scaled(num, den)
    IN  SigStep(1, sc[1] - sc[2], sc[2], bits - 1, modulus)

\* round to nearest, a tie to the even significand
RoundsUp(sig, den) ==
    2 * sig.r > den \/ (2 * sig.r = den /\ sig.m % 2 = 1)

\* 2^n modulo mod, by squaring
RECURSIVE PowMod2(_, _)
PowMod2(n, mod) ==
    IF n = 0 THEN 1 % mod
    ELSE LET h == PowMod2(n \div 2, mod)
         IN  (((h * h) % mod) * (IF n % 2 = 1 THEN 2 ELSE 1)) % mod

\* the sign of (double)(num/den) - num/den.  The double has 53 bits: with
\* 2^e <= num/den < 2^(e+1) its significand is num * 2^(52-e) / den rounded
\* to nearest, a tie to even; r2 is num * 2^(52-e) modulo 2 * den, which
\* holds the remainder of that division and the last bit of its quotient
DoubleError(num, den) ==
    IF num = 0 THEN 0
    ELSE LET r2  == ((num % (2 * den)) * PowMod2(52 - Exp2(num, den), 2 * den))
                       % (2 * den)
             sig == [m |-> r2 \div den, r |-> r2 % den]
         IN  IF RoundsUp(sig, den) THEN 1
             ELSE IF sig.r = 0 THEN 0 ELSE -1

\* lrintf(num/den) for num/den >= 0: the argument becomes a float of 24
\* bits (nearest, ties to even) and the float is rounded to the nearest
\* integer, ties to even
lrintf(num, den) ==
    IF num = 0 THEN 0
    ELSE LET e   == Exp2(num, den)
             sc  == Scaled(num, den)
             sig == Significand(num, den, 24, Pow2(25))
             m   == sig.m + (IF RoundsUp(sig, sc[2]) THEN 1 ELSE 0)
         IN  IF e >= 23 THEN m * Pow2(e - 23)
             ELSE IF e < -1 THEN 0
             ELSE RoundHalfEven(m, Pow2(23 - e))

\* "%.<prec>f" of the double nearest to num/den >= 0: printf rounds the
\* double's exact value, so a decimal tie of num/den goes the way the double
\* is off, and to the even digit when the double is exact
Fixed(num, den, prec) ==
    LET t == num * Pow10(prec)
        v == IF 2 * (t % den) = den /\ DoubleError(num, den) # 0
             THEN (t \div den) + (IF DoubleError(num, den) > 0 THEN 1 ELSE 0)
             ELSE RoundHalfEven(t, den)
    IN  IF prec = 0 THEN Dec(v)
        ELSE Dec(v \div Pow10(prec)) \o "." \o DecPad(v % Pow10(prec), prec)

(***************************************************************************)
(* int64_t: sign and magnitude, the magnitude in limbs of three decimal     *)
(* digits, most significant first, without leading zero limbs               *)
(***************************************************************************)
Front(s) == SubSeq(s, 1, Len(s) - 1)

Last(s) == s[Len(s)]

RECURSIVE MagNorm(_)
MagNorm(a) ==
    IF a # <<>> /\ Head(a) = 0 THEN MagNorm(Tail(a)) ELSE a

RECURSIVE MagOf(_)
MagOf(n) == IF n = 0 THEN <<>> ELSE MagOf(n \div 1000) \o <<n % 1000>>

\* -1, 0, 1 as a < b, a = b, a > b
MagCmp(a, b) ==
    IF Len(a) # Len(b) THEN (IF Len(a) < Len(b) THEN -1 ELSE 1)
    ELSE IF a = b THEN 0
    ELSE LET d == CHOOSE t \in 1..Len(a) :
                     a[t] # b[t] /\ \A u \in 1..(t - 1) : a[u] = b[u]
         IN  IF a[d] < b[d] THEN -1 ELSE 1

RECURSIVE MagAddC(_, _, _)
MagAddC(a, b, c) ==
    IF a = <<>> /\ b = <<>> THEN (IF c = 0 THEN <<>> ELSE <<c>>)
    ELSE LET x == IF a = <<>> THEN 0 ELSE Last(a)
             y == IF b = <<>> THEN 0 ELSE Last(b)
             t == x + y + c
         IN  MagAddC(IF a = <<>> THEN <<>> ELSE Front(a),
                     IF b = <<>> THEN <<>> ELSE Front(b),
                     t \div 1000) \o <<t % 1000>>

MagAdd(a, b) == MagAddC(a, b, 0)

\* a - b for a >= b, the borrow being c
RECURSIVE MagSubC(_, _, _)
MagSubC(a, b, c) ==
    IF a = <<>> THEN <<>>
    ELSE LET y == IF b = <<>> THEN 0 ELSE Last(b)
             t == Last(a) - y - c
         IN  MagSubC(Front(a), IF b = <<>> THEN <<>> ELSE Front(b),
                     IF t < 0 THEN 1 ELSE 0)
             \o <<IF t < 0 THEN t + 1000 ELSE t>>

MagSub(a, b) == MagNorm(MagSubC(a, b, 0))

\* a times the limb m, plus the carry c
RECURSIVE MagMulLimb(_, _, _)
MagMulLimb(a, m, c) ==
    IF a = <<>> THEN MagOf(c)
    ELSE LET t == Last(a) * m + c
         IN  MagMulLimb(Front(a), m, t \div 1000) \o <<t % 1000>>

RECURSIVE MagMul(_, _)
MagMul(a, b) ==
    IF a = <<>> \/ b = <<>> THEN <<>>
    ELSE MagNorm(MagAdd(MagNorm(MagMul(a, Front(b)) \o <<0>>),
                        MagNorm(MagMulLimb(a, Last(b), 0))))

\* long division of a by d, 0 < d <= 2147483, the remainder so far being r
RECURSIVE MagDivR(_, _, _)
MagDivR(a, d, r) ==
    IF a = <<>> THEN <<>>
    ELSE LET t == r * 1000 + Head(a)
         IN  <<t \div d>> \o MagDivR(Tail(a), d, t % d)

MagDiv(a, d) == MagNorm(MagDivR(a, d, 0))

RECURSIVE MagModR(_, _, _)
MagModR(a, d, r) ==
    IF a = <<>> THEN r ELSE MagModR(Tail(a), d, (r * 1000 + Head(a)) % d)

MagMod(a, d) == MagModR(a, d, 0)

\* the decimal digits of a magnitude
RECURSIVE MagDigits(_)
MagDigits(a) ==
    IF a = <<>> THEN "0"
    ELSE IF Len(a) = 1 THEN Dec(a[1])
    ELSE MagDigits(Front(a)) \o DecPad(Last(a), 3)

I64Make(neg, mag) == [neg |-> neg /\ mag # <<>>, mag |-> mag]

\* the int64_t of the integer n
I64(n) == I64Make(n < 0, MagOf(Abs(n)))

INT64_MAX == [neg |-> FALSE, mag |-> <<9, 223, 372, 36, 854, 775, 807>>]

INT64_MIN == [neg |-> TRUE, mag |-> <<9, 223, 372, 36, 854, 775, 808>>]

I64Neg(a) == I64Make(~a.neg, a.mag)

I64Add(a, b) ==
    IF a.neg = b.neg THEN I64Make(a.neg, MagAdd(a.mag, b.mag))
    ELSE IF MagCmp(a.mag, b.mag) >= 0
    THEN I64Make(a.neg, MagSub(a.mag, b.mag))
    ELSE I64Make(b.neg, MagSub(b.mag, a.mag))

I64Sub(a, b) == I64Add(a, I64Neg(b))

\* a <= b
I64Le(a, b) ==
    IF a.neg # b.neg THEN a.neg
    ELSE IF a.neg THEN MagCmp(a.mag, b.mag) >= 0
    ELSE MagCmp(a.mag, b.mag) <= 0

I64Mul(a, b) == I64Make(a.neg # b.neg, MagMul(a.mag, b.mag))

\* a / d and a % d of C (truncation toward zero), 0 < d <= 2147483
I64Div(a, d) == I64Make(a.neg, MagDiv(a.mag, d))

I64Rem(a, d) == I64Make(a.neg, MagOf(MagMod(a.mag, d)))

\* llabs
llabs(a) == I64Make(FALSE, a.mag)

\* the magnitude as an integer of the model, for magnitudes below 2^31
RECURSIVE MagInt(_)
MagInt(a) == IF a = <<>> THEN 0 ELSE MagInt(Front(a)) * 1000 + Last(a)

I64Int(a) == IF a.neg THEN -MagInt(a.mag) ELSE MagInt(a.mag)

\* "%" PRId64 and "%02" PRId64
I64Dec(a) == (IF a.neg THEN "-" ELSE "") \o MagDigits(a.mag)

I64DecPad2(a) ==
    IF ~a.neg /\ Len(a.mag) <= 1 THEN DecPad(I64Int(a), 2) ELSE I64Dec(a)

\* 2^32
TwoTo32 == I64Mul(I64(65536), I64(65536))

\* the conversion of an int64_t to int: the low 32 bits, read as two's
\* complement
I32(a) ==
    LET lo  == MagMod(a.mag, 65536)
        hi  == MagMod(MagDiv(a.mag, 65536), 65536)
        low == I64Add(I64Mul(I64(hi), I64(65536)), I64(lo))
        u   == IF a.neg /\ low.mag # <<>> THEN I64Sub(TwoTo32, low) ELSE low
    IN  IF I64Le(I64Mul(I64(32768), I64(65536)), u)
        THEN I64Sub(u, TwoTo32)
        ELSE u

(***************************************************************************)
(* print_fps                                                               *)
(***************************************************************************)
RECURSIVE av_gcd(_, _)
av_gcd(a, b) == IF b = 0 THEN Abs(a) ELSE av_gcd(b, a % Abs(b))

\* uint64_t v = lrintf(d * 100), with d = q.num / q.den
\* (d * 100 is taken in lowest terms to keep the numbers small)
FpsV(q) ==
    LET g == av_gcd(100, q.den)
    IN  lrintf((100 \div g) * q.num, q.den \div g)

\* print_fps(d, postfix) with d = av_q2d(q)
print_fps(q, postfix) ==
    LET v == FpsV(q)
    IN  IF v = 0 THEN <<Fixed(q.num, q.den, 4), " ", postfix>>
        ELSE IF v % 100 # 0 THEN <<Fixed(q.num, q.den, 2), " ", postfix>>
        ELSE IF v % (100 * 1000) # 0 THEN <<Fixed(q.num, q.den, 0), " ", postfix>>
        ELSE <<Fixed(q.num, q.den * 1000, 0), "k", " ", postfix>>

(***************************************************************************)
(* Rationals: av_gcd, av_reduce, av_cmp_q                                  *)
(***************************************************************************)

\* the loop of av_reduce over the continued fraction of num/den
RECURSIVE ReduceLoop(_, _, _, _, _)
ReduceLoop(num, den, a0, a1, max) ==
    IF den = 0 THEN a1
    ELSE LET x   == num \div den
             a2n == x * a1.num + a0.num
             a2d == x * a1.den + a0.den
         IN  IF a2n > max \/ a2d > max
             THEN LET x1 == IF a1.num # 0 THEN (max - a0.num) \div a1.num ELSE x
                      x2 == IF a1.den # 0
                            THEN FFMIN(x1, (max - a0.den) \div a1.den) ELSE x1
                  IN  IF ~I64Le(I64Mul(I64(den),
                                       I64(2 * x2 * a0.den + a1.den)),
                                I64Mul(I64(num), I64(a1.den)))
                      THEN [num |-> x2 * a1.num + a0.num,
                            den |-> x2 * a1.den + a0.den]
                      ELSE a1
             ELSE ReduceLoop(den, num - den * x, a1,
                             [num |-> a2n, den |-> a2d], max)

\* av_reduce(&dst.num, &dst.den, num, den, max)
av_reduce(num, den, max) ==
    LET sign == (num < 0) # (den < 0)
        gcd  == av_gcd(Abs(num), Abs(den))
        n1   == IF gcd # 0 THEN Abs(num) \div gcd ELSE num
        d1   == IF gcd # 0 THEN Abs(den) \div gcd ELSE den
        a1   == IF n1 <= max /\ d1 <= max
                THEN [num |-> n1, den |-> d1]
                ELSE ReduceLoop(n1, d1, [num |-> 0, den |-> 1],
                                [num |-> 1, den |-> 0], max)
    IN  [num |-> IF sign THEN -a1.num ELSE a1.num, den |-> a1.den]

\* av_cmp_q(a, b) != 0
av_cmp_q(a, b) ==
    LET tmp == a.num * b.den - b.num * a.den
    IN  IF tmp # 0 THEN TRUE
        ELSE IF b.den # 0 /\ a.den # 0 THEN FALSE
        ELSE IF a.num # 0 /\ b.num # 0 THEN (a.num < 0) # (b.num < 0)
        ELSE TRUE

(***************************************************************************)
(* get_bit_rate, print_codec                                               *)
(***************************************************************************)
AV_LOG_INFO == 32
AV_LOG_VERBOSE == 40
AV_LOG_DEBUG == 48


MediaTypes == {"video", "audio", "data", "subtitle", "attachment"}

\* av_get_media_type_string: NULL for AVMEDIA_TYPE_UNKNOWN and beyond
av_get_media_type_string(t) == IF t \in MediaTypes THEN <<t>> ELSE NULL

unknown_if_null(str) == IF str # NULL THEN str[1] ELSE "unknown"

\* av_color_range_name, av_color_space_name, av_color_primaries_name,
\* av_color_transfer_name, av_chroma_location_name: the unspecified value is
\* named "unknown", a value outside the enum has no name
av_color_name(v) ==
    IF v = "unspecified" THEN <<"unknown">>
    ELSE IF v = "invalid" THEN NULL ELSE <<v>>

\* a variant that returns the declared bit rate for every codec type
get_bit_rateDeclared(ctx) == ctx.bit_rate

get_bit_rate(ctx) ==
    IF ctx.codec_type \in {"video", "data", "subtitle", "attachment"}
    THEN ctx.bit_rate
    ELSE IF ctx.codec_type = "audio"
    THEN IF ctx.bits_per_sample # 0
         THEN LET bit_rate == I64Mul(I64(ctx.sample_rate),
                                     I64(ctx.nb_channels))
              IN  IF ~I64Le(bit_rate, I64Div(INT64_MAX, ctx.bits_per_sample))
                  THEN I64(0)
                  ELSE I64Mul(bit_rate, I64(ctx.bits_per_sample))
         ELSE ctx.bit_rate
    ELSE I64(0)

\* "<type>: <name>" and the parenthesised parts that follow it
CodecHeader(enc, level) ==
    LET codec_type == av_get_media_type_string(enc.codec_type)
    IN  <<IF codec_type # NULL THEN codec_type[1] ELSE "unknown", ": ",
          enc.codec_name>>
        \o (IF enc.codec # NULL /\ strcmp(enc.codec[1], enc.codec_name)
            THEN <<" (", enc.codec[1], ")">> ELSE <<>>)
        \o (IF enc.profile # NULL THEN <<" (", enc.profile[1], ")">> ELSE <<>>)
        \o (IF enc.codec_type = "video" /\ level >= AV_LOG_VERBOSE
               /\ enc.refs # 0
            THEN <<", ", Dec(enc.refs), " reference frame",
                   IF enc.refs > 1 THEN "s" ELSE "">>
            ELSE <<>>)
        \o (IF enc.codec_tag # 0
            THEN <<" (", enc.fourcc, " / 0x", Numeral(enc.codec_tag, 16, 4), ")">>
            ELSE <<>>)

\* new_line: the colour triple was printed in its three-part form
NewLine(enc) ==
    /\ \/ enc.colorspace # "unspecified"
       \/ enc.color_primaries # "unspecified"
       \/ enc.color_trc # "unspecified"
    /\ LET col == unknown_if_null(av_color_name(enc.colorspace))
           pri == unknown_if_null(av_color_name(enc.color_primaries))
           trc == unknown_if_null(av_color_name(enc.color_trc))
       IN  strcmp(col, pri) \/ strcmp(col, trc)

FieldOrderName(f) ==
    CASE f = "tt" -> "top first"
      [] f = "bb" -> "bottom first"
      [] f = "tb" -> "top coded first (swapped)"
      [] f = "bt" -> "bottom coded first (swapped)"
      [] OTHER -> "progressive"

\* the block  case AVMEDIA_TYPE_VIDEO: { ... }  up to the chroma location
VideoFormat(enc, separator, level) ==
    <<separator,
      IF enc.pix_fmt = "none" THEN "none"
      ELSE unknown_if_null(enc.pix_fmt_name)>>
    \o (IF enc.bits_per_raw_sample # 0 /\ enc.pix_fmt # "none"
           /\ enc.bits_per_raw_sample < enc.pix_depth
        THEN <<Dec(enc.bits_per_raw_sample), " bpc, ">> ELSE <<>>)
    \o (IF enc.color_range # "unspecified"
           /\ av_color_name(enc.color_range) # NULL
        THEN <<av_color_name(enc.color_range)[1], ", ">> ELSE <<>>)
    \o (IF \/ enc.colorspace # "unspecified"
           \/ enc.color_primaries # "unspecified"
           \/ enc.color_trc # "unspecified"
        THEN LET col == unknown_if_null(av_color_name(enc.colorspace))
                 pri == unknown_if_null(av_color_name(enc.color_primaries))
                 trc == unknown_if_null(av_color_name(enc.color_trc))
             IN  IF strcmp(col, pri) \/ strcmp(col, trc)
                 THEN <<col, "/", pri, "/", trc, ", ">>
                 ELSE <<col, ", ">>
        ELSE <<>>)
    \o (IF enc.field_order # "unknown"
        THEN <<FieldOrderName(enc.field_order), ", ">> ELSE <<>>)
    \o (IF level >= AV_LOG_VERBOSE
           /\ enc.chroma_sample_location # "unspecified"
           /\ av_color_name(enc.chroma_sample_location) # NULL
        THEN <<av_color_name(enc.chroma_sample_location)[1], ", ">>
        ELSE <<>>)

\* a variant that shows the unreduced display ratio
CodecSarDarUnreduced(enc) ==
    <<" [SAR ", Dec(enc.sample_aspect_ratio.num), ":",
      Dec(enc.sample_aspect_ratio.den), " DAR ",
      Dec(enc.width * enc.sample_aspect_ratio.num), ":",
      Dec(enc.height * enc.sample_aspect_ratio.den), "]">>

\* " [SAR a:b DAR c:d]" inside the codec summary
CodecSarDar(enc) ==
    LET dar == av_reduce(enc.width * enc.sample_aspect_ratio.num,
                         enc.height * enc.sample_aspect_ratio.den,
                         1024 * 1024)
    IN  <<" [SAR ", Dec(enc.sample_aspect_ratio.num), ":",
          Dec(enc.sample_aspect_ratio.den), " DAR ", Dec(dar.num), ":",
          Dec(dar.den), "]">>

\* ", %d/%d" of the time base divided by its gcd g; a division by g = 0 is
\* undefined behaviour (SIGFPE on the usual targets): the token DivByZero
DivByZero == "<division by zero>"
TimeBaseOver(enc, g) ==
    IF g = 0 THEN <<DivByZero>>
    ELSE <<", ", Dec(CDiv(enc.time_base.num, g)), "/",
           Dec(CDiv(enc.time_base.den, g))>>

\* the rest of the video case:  if (enc->width) { ... }  and the properties
VideoSize(enc, separator, level) ==
    (IF enc.width # 0
     THEN <<IF NewLine(enc) THEN separator ELSE ", ",
            Dec(enc.width), "x", Dec(enc.height)>>
          \o (IF level >= AV_LOG_VERBOSE /\ enc.coded_width # 0
                 /\ enc.coded_height # 0
                 /\ (enc.width # enc.coded_width
                     \/ enc.height # enc.coded_height)
              THEN <<" (", Dec(enc.coded_width), "x", Dec(enc.coded_height),
                     ")">>
              ELSE <<>>)
          \o (IF enc.sample_aspect_ratio.num # 0 THEN CodecSarDar(enc)
              ELSE <<>>)
          \o (IF level >= AV_LOG_DEBUG
              THEN TimeBaseOver(enc, av_gcd(enc.time_base.num,
                                            enc.time_base.den))
              ELSE <<>>)
     ELSE <<>>)
    \o (IF "closed_captions" \in enc.properties
        THEN <<", Closed Captions">> ELSE <<>>)
    \o (IF "film_grain" \in enc.properties THEN <<", Film Grain">> ELSE <<>>)
    \o (IF "lossless" \in enc.properties THEN <<", lossless">> ELSE <<>>)

AudioFormat(enc, separator, level) ==
    <<separator>>
    \o (IF enc.sample_rate # 0 THEN <<Dec(enc.sample_rate), " Hz, ">>
        ELSE <<>>)
    \o <<enc.ch_layout>>
    \o (IF enc.sample_fmt # "none" /\ enc.sample_fmt_name # NULL
        THEN <<", ", enc.sample_fmt_name[1]>> ELSE <<>>)
    \o (IF enc.bits_per_raw_sample > 0
           /\ enc.bits_per_raw_sample # enc.bytes_per_sample * 8
        THEN <<" (", Dec(enc.bits_per_raw_sample), " bit)">> ELSE <<>>)
    \o (IF level >= AV_LOG_VERBOSE
        THEN (IF enc.initial_padding # 0
              THEN <<", delay ", Dec(enc.initial_padding)>> ELSE <<>>)
             \o (IF enc.trailing_padding # 0
                 THEN <<", padding ", Dec(enc.trailing_padding)>> ELSE <<>>)
        ELSE <<>>)

DataFormat(enc, level) ==
    IF level >= AV_LOG_DEBUG
    THEN LET g == av_gcd(enc.time_base.num, enc.time_base.den)
         IN  IF g # 0 THEN TimeBaseOver(enc, g) ELSE <<>>
    ELSE <<>>

SubtitleFormat(enc) ==
    IF enc.width # 0 THEN <<", ", Dec(enc.width), "x", Dec(enc.height)>>
    ELSE <<>>

\* the tail of print_codec: the bit rate or the maximum rate
BitrateSuffix(enc) ==
    LET bitrate == get_bit_rate(enc)
    IN  IF bitrate # I64(0)
        THEN <<", ", I64Dec(I64Div(bitrate, 1000)), " kb/s">>
        ELSE IF ~I64Le(enc.rc_max_rate, I64(0))
        THEN <<", max. ", I64Dec(I64Div(enc.rc_max_rate, 1000)), " kb/s">>
        ELSE <<>>

\* a variant that writes the bit rate after every header
print_codecWithRate(enc, level) == CodecHeader(enc, level) \o BitrateSuffix(enc)

\* print_codec(enc) at log level `level`
print_codec(enc, level) ==
    LET separator == IF enc.dump_separator # NULL THEN enc.dump_separator[1]
                     ELSE ", "
    IN  CodecHeader(enc, level)
        \o (CASE enc.codec_type = "video" ->
                    VideoFormat(enc, separator, level)
                    \o VideoSize(enc, separator, level) \o BitrateSuffix(enc)
              [] enc.codec_type = "audio" ->
                    AudioFormat(enc, separator, level) \o BitrateSuffix(enc)
              [] enc.codec_type = "data" ->
                    DataFormat(enc, level) \o BitrateSuffix(enc)
              [] enc.codec_type = "subtitle" ->
                    SubtitleFormat(enc) \o BitrateSuffix(enc)
              [] OTHER -> <<>>)

(***************************************************************************)
(* dump_stream_format                                                      *)
(***************************************************************************)
AV_DISPOSITION_DEFAULT == 1
AV_DISPOSITION_DUB == 2
AV_DISPOSITION_ORIGINAL == 4
AV_DISPOSITION_COMMENT == 8
AV_DISPOSITION_LYRICS == 16
AV_DISPOSITION_KARAOKE == 32
AV_DISPOSITION_FORCED == 64
AV_DISPOSITION_HEARING_IMPAIRED == 128
AV_DISPOSITION_VISUAL_IMPAIRED == 256
AV_DISPOSITION_CLEAN_EFFECTS == 512
AV_DISPOSITION_ATTACHED_PIC == 1024
AV_DISPOSITION_TIMED_THUMBNAILS == 2048
AV_DISPOSITION_NON_DIEGETIC == 4096
AV_DISPOSITION_CAPTIONS == 65536
AV_DISPOSITION_DESCRIPTIONS == 131072
AV_DISPOSITION_METADATA == 262144
AV_DISPOSITION_DEPENDENT == 524288
AV_DISPOSITION_STILL_IMAGE == 1048576

\* disposition & flag, for a flag that is one bit
BitAnd(disposition, flag) == (disposition \div flag) % 2 = 1


\* a variant that tests the flags in the order of their bits
DispositionTestsBitOrder ==
    << <<AV_DISPOSITION_DEFAULT, " (default)">>,
       <<AV_DISPOSITION_DUB, " (dub)">>,
       <<AV_DISPOSITION_ORIGINAL, " (original)">>,
       <<AV_DISPOSITION_COMMENT, " (comment)">>,
       <<AV_DISPOSITION_LYRICS, " (lyrics)">>,
       <<AV_DISPOSITION_KARAOKE, " (karaoke)">>,
       <<AV_DISPOSITION_FORCED, " (forced)">>,
       <<AV_DISPOSITION_HEARING_IMPAIRED, " (hearing impaired)">>,
       <<AV_DISPOSITION_VISUAL_IMPAIRED, " (visual impaired)">>,
       <<AV_DISPOSITION_CLEAN_EFFECTS, " (clean effects)">>,
       <<AV_DISPOSITION_ATTACHED_PIC, " (attached pic)">>,
       <<AV_DISPOSITION_TIMED_THUMBNAILS, " (timed thumbnails)">>,
       <<AV_DISPOSITION_NON_DIEGETIC, " (non-diegetic)">>,
       <<AV_DISPOSITION_CAPTIONS, " (captions)">>,
       <<AV_DISPOSITION_DESCRIPTIONS, " (descriptions)">>,
       <<AV_DISPOSITION_METADATA, " (metadata)">>,
       <<AV_DISPOSITION_DEPENDENT, " (dependent)">>,
       <<AV_DISPOSITION_STILL_IMAGE, " (still image)">> >>

\* the eighteen tests of dump_stream_format, in the order of the code
DispositionTests ==
    << <<AV_DISPOSITION_DEFAULT, " (default)">>,
       <<AV_DISPOSITION_DUB, " (dub)">>,
       <<AV_DISPOSITION_ORIGINAL, " (original)">>,
       <<AV_DISPOSITION_COMMENT, " (comment)">>,
       <<AV_DISPOSITION_LYRICS, " (lyrics)">>,
       <<AV_DISPOSITION_KARAOKE, " (karaoke)">>,
       <<AV_DISPOSITION_FORCED, " (forced)">>,
       <<AV_DISPOSITION_HEARING_IMPAIRED, " (hearing impaired)">>,
       <<AV_DISPOSITION_VISUAL_IMPAIRED, " (visual impaired)">>,
       <<AV_DISPOSITION_CLEAN_EFFECTS, " (clean effects)">>,
       <<AV_DISPOSITION_ATTACHED_PIC, " (attached pic)">>,
       <<AV_DISPOSITION_TIMED_THUMBNAILS, " (timed thumbnails)">>,
       <<AV_DISPOSITION_CAPTIONS, " (captions)">>,
       <<AV_DISPOSITION_DESCRIPTIONS, " (descriptions)">>,
       <<AV_DISPOSITION_METADATA, " (metadata)">>,
       <<AV_DISPOSITION_DEPENDENT, " (dependent)">>,
       <<AV_DISPOSITION_STILL_IMAGE, " (still image)">>,
       <<AV_DISPOSITION_NON_DIEGETIC, " (non-diegetic)">> >>

\* the tests from the n-th on
RECURSIVE DispositionsFrom(_, _)
DispositionsFrom(disposition, n) ==
    IF n > Len(DispositionTests) THEN <<>>
    ELSE (IF BitAnd(disposition, DispositionTests[n][1])
          THEN <<DispositionTests[n][2]>> ELSE <<>>)
         \o DispositionsFrom(disposition, n + 1)

Dispositions(disposition) == DispositionsFrom(disposition, 1)

\* the context avcodec_alloc_context3(NULL) returns: the fields print_codec
\* reads that avcodec_parameters_to_context does not set
DefaultContext ==
    [codec |-> NULL, refs |-> 1, coded_width |-> 0, coded_height |-> 0,
     time_base |-> [num |-> 0, den |-> 1], properties |-> {},
     rc_max_rate |-> I64(0), dump_separator |-> NULL]

\* avcodec_parameters_to_context: the context holding the parameters
avcodec_parameters_to_context(par) ==
    [f \in DOMAIN par \cup DOMAIN DefaultContext |->
        IF f \in DOMAIN par THEN par[f] ELSE DefaultContext[f]]

\* a variant that writes the stream's aspect ratio whenever it is non-zero
StreamSarDarNonZero(st) ==
    IF st.sample_aspect_ratio.num # 0
    THEN LET dar == av_reduce(st.codecpar.width * st.sample_aspect_ratio.num,
                              st.codecpar.height * st.sample_aspect_ratio.den,
                              1024 * 1024)
         IN  <<", SAR ", Dec(st.sample_aspect_ratio.num), ":",
               Dec(st.sample_aspect_ratio.den), " DAR ", Dec(dar.num), ":",
               Dec(dar.den)>>
    ELSE <<>>

\* ", SAR a:b DAR c:d" of the stream's own sample aspect ratio
StreamSarDar(st) ==
    IF st.sample_aspect_ratio.num # 0
       /\ av_cmp_q(st.sample_aspect_ratio, st.codecpar.sample_aspect_ratio)
    THEN LET dar == av_reduce(st.codecpar.width * st.sample_aspect_ratio.num,
                              st.codecpar.height * st.sample_aspect_ratio.den,
                              1024 * 1024)
         IN  <<", SAR ", Dec(st.sample_aspect_ratio.num), ":",
               Dec(st.sample_aspect_ratio.den), " DAR ", Dec(dar.num), ":",
               Dec(dar.den)>>
    ELSE <<>>

\* the frame rate trio of a video stream
\* a variant that writes the separator for every video stream
StreamRatesSeparatorAlways(st, separator) ==
    IF st.codecpar.codec_type = "video"
    THEN LET fps == st.avg_frame_rate.den # 0 /\ st.avg_frame_rate.num # 0
             tbr == st.r_frame_rate.den # 0 /\ st.r_frame_rate.num # 0
             tbn == st.time_base.den # 0 /\ st.time_base.num # 0
         IN  <<separator>>
             \o (IF fps
                 THEN print_fps(st.avg_frame_rate,
                                IF tbr \/ tbn THEN "fps, " ELSE "fps")
                 ELSE <<>>)
             \o (IF tbr
                 THEN print_fps(st.r_frame_rate,
                                IF tbn THEN "tbr, " ELSE "tbr")
                 ELSE <<>>)
             \o (IF tbn
                 THEN print_fps([num |-> st.time_base.den,
                                 den |-> st.time_base.num], "tbn")
                 ELSE <<>>)
    ELSE <<>>

StreamRates(st, separator) ==
    IF st.codecpar.codec_type = "video"
    THEN LET fps == st.avg_frame_rate.den # 0 /\ st.avg_frame_rate.num # 0
             tbr == st.r_frame_rate.den # 0 /\ st.r_frame_rate.num # 0
             tbn == st.time_base.den # 0 /\ st.time_base.num # 0
         IN  (IF fps \/ tbr \/ tbn THEN <<separator>> ELSE <<>>)
             \o (IF fps
                 THEN print_fps(st.avg_frame_rate,
                                IF tbr \/ tbn THEN "fps, " ELSE "fps")
                 ELSE <<>>)
             \o (IF tbr
                 THEN print_fps(st.r_frame_rate,
                                IF tbn THEN "tbr, " ELSE "tbr")
                 ELSE <<>>)
             \o (IF tbn
                 THEN print_fps([num |-> st.time_base.den,
                                 den |-> st.time_base.num], "tbn")
                 ELSE <<>>)
    ELSE <<>>

\* "  Stream #%d:%d", "[0x%x]", ": "
StreamHeader(st, n, index) ==
    <<"  Stream #", Dec(index), ":", Dec(n), "[0x", Hex(st.id), "]", ": ">>

\* dump_stream_format(ic, n, index): the tokens it logs.  alloc is "ok",
\* "ENOMEM" (avcodec_alloc_context3 returns NULL) or "EINVAL"
\* (avcodec_parameters_to_context fails): both failures return at once
dump_stream_format(ic, n, index, level, alloc) ==
    IF alloc # "ok" THEN <<>>
    ELSE LET st    == ic.streams[n + 1]
             avctx == [avcodec_parameters_to_context(st.codecpar)
                          EXCEPT !.dump_separator = ic.dump_separator]
         IN  StreamHeader(st, n, index)
             \o print_codec(avctx, level)
             \o StreamSarDar(st)
             \o StreamRates(st, ic.dump_separator[1])
             \o Dispositions(st.disposition)
             \o <<"\n">>
             \o dump_metadata(st.metadata, "    ")

(***************************************************************************)
(* dump_format: the text of its sections                                   *)
(***************************************************************************)
AV_TIME_BASE == 1000000
\* AV_NOPTS_VALUE is INT64_C(0x8000000000000000)
AV_NOPTS_VALUE == INT64_MIN

\* the log: every token with the place of dump_format that wrote it, the
\* index n of the stream, chapter or program written and, for a stream
\* written for a program, the index p of that program (-1 otherwise)
Log(site, n, p, tokens) ==
    [t \in 1..Len(tokens) |-> [site |-> site, n |-> n, p |-> p,
                               txt |-> tokens[t]]]

\* "%s #%d, %s, %s '%s':\n" with ("Input", index, name, "from", url)
MediaHeader(ic, url, index) ==
    <<"Input", " #", Dec(index), ", ", ic.iformat_name, ", ", "from", " '">>
    \o url \o <<"':", "\n">>

\* "  Duration: " and the time or "N/A"
\* a variant without the rounding bias
DurationTextNoBias(ic) ==
    <<"  Duration: ">>
    \o (IF ic.duration # AV_NOPTS_VALUE
        THEN LET duration == ic.duration
                 secs0 == I64Div(duration, AV_TIME_BASE)
                 us    == I64Rem(duration, AV_TIME_BASE)
                 mins0 == I64Div(secs0, 60)
                 secs  == I64Rem(secs0, 60)
                 hours == I64Div(mins0, 60)
                 mins  == I64Rem(mins0, 60)
             IN  <<I64DecPad2(hours), ":", I64DecPad2(mins), ":",
                   I64DecPad2(secs), ".",
                   I64DecPad2(I64Div(I64Mul(I64(100), us), AV_TIME_BASE))>>
        ELSE <<"N/A">>)

DurationText(ic) ==
    <<"  Duration: ">>
    \o (IF ic.duration # AV_NOPTS_VALUE
        THEN LET duration == I64Add(ic.duration,
                                    IF I64Le(ic.duration,
                                             I64Sub(INT64_MAX, I64(5000)))
                                    THEN I64(5000) ELSE I64(0))
                 secs0 == I64Div(duration, AV_TIME_BASE)
                 us    == I64Rem(duration, AV_TIME_BASE)
                 mins0 == I64Div(secs0, 60)
                 secs  == I64Rem(secs0, 60)
                 hours == I64Div(mins0, 60)
                 mins  == I64Rem(mins0, 60)
             IN  <<I64DecPad2(hours), ":", I64DecPad2(mins), ":",
                   I64DecPad2(secs), ".",
                   I64DecPad2(I64Div(I64Mul(I64(100), us), AV_TIME_BASE))>>
        ELSE <<"N/A">>)

\* "%06d" of an int >= 0
IntDecPad6(a) == DecPad(I64Int(a), 6)

\* ", start: " and the signed seconds, when the start time is known; secs
\* and us are int, the seconds are narrowed on assignment
StartText(ic) ==
    IF ic.start_time # AV_NOPTS_VALUE
    THEN LET secs == I32(llabs(I64Div(ic.start_time, AV_TIME_BASE)))
             us   == I32(llabs(I64Rem(ic.start_time, AV_TIME_BASE)))
         IN  <<", start: ", IF I64Le(I64(0), ic.start_time) THEN "" ELSE "-",
               I64Dec(secs), ".", IntDecPad6(us)>>
    ELSE <<>>

\* ", bitrate: " and the rate or "N/A", and the end of the line
BitrateText(ic) ==
    <<", bitrate: ">>
    \o (IF ic.bit_rate # I64(0)
        THEN <<I64Dec(I64Div(ic.bit_rate, 1000)), " kb/s">>
        ELSE <<"N/A">>)
    \o <<"\n">>

\* "    Chapter #%d:%d: ", "start %f, ", "end %f\n" of chapter n
ChapterLine(ch, n, index) ==
    <<"    Chapter #", Dec(index), ":", Dec(n), ": ",
      "start ", Fixed(ch.start * ch.time_base.num, ch.time_base.den, 6), ", ",
      "end ", Fixed(ch.end * ch.time_base.num, ch.time_base.den, 6), "\n">>

\* the loop over the chapters from the n-th on
RECURSIVE ChaptersFrom(_, _, _)
ChaptersFrom(ic, n, index) ==
    IF n >= Len(ic.chapters) THEN <<>>
    ELSE Log("chapter", n, -1, ChapterLine(ic.chapters[n + 1], n, index))
         \o Log("chapter_metadata", n, -1,
                dump_metadata(ic.chapters[n + 1].metadata, "      "))
         \o ChaptersFrom(ic, n + 1, index)

\* if (ic->nb_chapters) { ... }
Chapters(ic, index) ==
    IF Len(ic.chapters) # 0
    THEN Log("chapters", -1, -1, <<"  Chapters:", "\n">>)
         \o ChaptersFrom(ic, 0, index)
    ELSE <<>>

NameKey == <<"n","a","m","e">>

\* "  Program %d %s\n" with (program->id, name ? name->value : "")
ProgramLine(program) ==
    LET name == av_dict_get(program.metadata, NameKey, 0)
    IN  <<"  Program ", Dec(program.id), " ">>
        \o (IF name # NULL THEN name[1].value ELSE <<>>) \o <<"\n">>


\* a variant that lists the chapters before the duration line
ReportHeadChaptersFirst(ic, url, index) ==
    Log("header", -1, -1, MediaHeader(ic, url, index))
    \o Log("metadata", -1, -1, dump_metadata(ic.metadata, "  "))
    \o Chapters(ic, index)
    \o Log("duration", -1, -1, DurationText(ic))
    \o Log("start", -1, -1, StartText(ic))
    \o Log("bitrate", -1, -1, BitrateText(ic))

\* dump_format from the media header to the end of the chapters
ReportHead(ic, url, index) ==
    Log("header", -1, -1, MediaHeader(ic, url, index))
    \o Log("metadata", -1, -1, dump_metadata(ic.metadata, "  "))
    \o Log("duration", -1, -1, DurationText(ic))
    \o Log("start", -1, -1, StartText(ic))
    \o Log("bitrate", -1, -1, BitrateText(ic))
    \o Chapters(ic, index)

\* uint8_t *printed = ic->nb_streams ? av_mallocz(ic->nb_streams) : NULL;
\* a pointer: NULL, or <<the zeroed array>> when the allocation succeeds
AllocPrinted(ic, malloc_ok) ==
    IF Len(ic.streams) # 0 /\ malloc_ok
    THEN <<[n \in 0..(Len(ic.streams) - 1) |-> 0]>>
    ELSE NULL


\* a variant that does not test the marker array
HeadOutputUnguarded(ptr, ic, url, index) == ReportHead(ic, url, index)

\* what dump_format has logged when the chapters are done: nothing when
\* printed is NULL (it returned), else the head of the report
HeadOutput(ptr, ic, url, index) ==
    IF ptr = NULL THEN <<>> ELSE ReportHead(ic, url, index)


\* a variant that leaves the marker clear
MarkPrintedNever(array, n) == array

\* printed[n] = 1
MarkPrinted(array, n) == [array EXCEPT ![n] = 1]


\* a variant that writes the line whenever the file has streams
NoProgramAlways(ic, sum) ==
    IF 0 < Len(ic.streams)
    THEN Log("no_program", -1, -1, <<"  No Program", "\n">>)
    ELSE <<>>

\* if (total < ic->nb_streams) av_log("  No Program\n")
NoProgram(ic, sum) ==
    IF sum < Len(ic.streams)
    THEN Log("no_program", -1, -1, <<"  No Program", "\n">>)
    ELSE <<>>

(***************************************************************************)
(* The enumerated inputs                                                   *)
(***************************************************************************)
Entry(key, value) == [key |-> key, value |-> value]

\* a rational
Q(num, den) == [num |-> num, den |-> den]

NoRatio == [num |-> 0, den |-> 1]

\* codec parameters of an H.264 video stream, 1920x1080
VideoPar ==
    [codec_type |-> "video", codec_name |-> "h264", profile |-> <<"High">>,
     codec_tag |-> 0, fourcc |-> "", pix_fmt |-> "yuv420p",
     pix_fmt_name |-> <<"yuv420p">>, pix_depth |-> 8,
     bits_per_raw_sample |-> 8, color_range |-> "unspecified",
     colorspace |-> "unspecified", color_primaries |-> "unspecified",
     color_trc |-> "unspecified", field_order |-> "unknown",
     chroma_sample_location |-> "unspecified", width |-> 1920,
     height |-> 1080, sample_aspect_ratio |-> NoRatio, bit_rate |-> I64(0),
     sample_rate |-> 0, nb_channels |-> 0, ch_layout |-> "",
     sample_fmt |-> "none", sample_fmt_name |-> NULL, bytes_per_sample |-> 0,
     bits_per_sample |-> 0, initial_padding |-> 0, trailing_padding |-> 0]

\* codec parameters of an AAC audio stream, 48 kHz stereo
AudioPar ==
    [VideoPar EXCEPT !.codec_type = "audio", !.codec_name = "aac",
                     !.profile = <<"LC">>, !.pix_fmt = "none",
                     !.pix_fmt_name = NULL, !.pix_depth = 0,
                     !.bits_per_raw_sample = 0, !.width = 0, !.height = 0,
                     !.bit_rate = I64(128000), !.sample_rate = 48000,
                     !.nb_channels = 2, !.ch_layout = "stereo",
                     !.sample_fmt = "fltp", !.sample_fmt_name = <<"fltp">>,
                     !.bytes_per_sample = 4]

\* codec parameters of a text subtitle stream
SubtitlePar ==
    [AudioPar EXCEPT !.codec_type = "subtitle", !.codec_name = "subrip",
                     !.profile = NULL, !.bit_rate = I64(0), !.sample_rate = 0,
                     !.nb_channels = 0, !.ch_layout = "",
                     !.sample_fmt = "none", !.sample_fmt_name = NULL,
                     !.bytes_per_sample = 0]

VideoStream ==
    [id |-> 1, codecpar |-> VideoPar, sample_aspect_ratio |-> NoRatio,
     avg_frame_rate |-> [num |-> 24000, den |-> 1001],
     r_frame_rate |-> [num |-> 24000, den |-> 1001],
     time_base |-> [num |-> 1, den |-> 90000],
     disposition |-> AV_DISPOSITION_DEFAULT, metadata |-> <<>>]

AudioStream ==
    [VideoStream EXCEPT !.id = 2, !.codecpar = AudioPar,
                        !.avg_frame_rate = [num |-> 0, den |-> 0],
                        !.r_frame_rate = [num |-> 0, den |-> 0],
                        !.time_base = [num |-> 1, den |-> 48000],
                        !.metadata = <<Entry(Language, <<"e","n","g">>)>>]

SubtitleStream ==
    [AudioStream EXCEPT !.id = 3, !.codecpar = SubtitlePar,
                        !.time_base = [num |-> 1, den |-> 1000],
                        !.disposition = 0,
                        !.metadata = <<Entry(<<"t","i","t","l","e">>,
                                             <<"S","D","H">>)>>]

\* the c-th stream (c = 0, 1, ...) of an enumerated container
StreamAt(c) ==
    CASE c % 3 = 0 -> VideoStream
      [] c % 3 = 1 -> AudioStream
      [] OTHER -> SubtitleStream

StreamsOf(nb) == [c \in 1..nb |-> StreamAt(c - 1)]

RECURSIVE SumLen(_)
SumLen(lists) ==
    IF lists = <<>> THEN 0 ELSE Len(Head(lists)) + SumLen(Tail(lists))

\* every stream_index array over nb streams, of at most MaxRefs indexes
IndexLists(nb) == UNION {[1..l -> 0..(nb - 1)] : l \in 0..MaxRefs}

\* the c-th program (c = 0, 1, ...) listing the stream indexes list
ProgramAt(c, list) ==
    [id |-> c + 1, stream_index |-> list,
     metadata |-> IF c = 0 THEN <<Entry(NameKey, <<"t","v">>)>> ELSE <<>>]

\* every program array over nb streams within the bounds
ProgramArrays(nb) ==
    {[c \in 1..Len(lists) |-> ProgramAt(c - 1, lists[c])] :
        lists \in {ls \in UNION {[1..p -> IndexLists(nb)] : p \in 0..MaxPrograms} :
                      SumLen(ls) <= MaxRefs}}

ChapterAt(c) ==
    [start |-> 30 * c, end |-> 30 * (c + 1),
     time_base |-> [num |-> 1, den |-> 1],
     metadata |-> IF c = 0 THEN <<Entry(<<"t","i","t","l","e">>, <<"A">>)>>
                  ELSE <<>>]

ChaptersOf(nb) == [c \in 1..nb |-> ChapterAt(c - 1)]

\* a container with nothing known but its demuxer
EmptyContainer ==
    [iformat_name |-> "mov,mp4,m4a,3gp,3g2,mj2", duration |-> AV_NOPTS_VALUE,
     start_time |-> AV_NOPTS_VALUE, bit_rate |-> I64(0), metadata |-> <<>>,
     streams |-> <<>>, chapters |-> <<>>, programs |-> <<>>,
     dump_separator |-> <<", ">>]

\* containers that differ in their streams and programs
StructureFiles ==
    UNION {{[EmptyContainer EXCEPT !.streams = StreamsOf(nb), !.programs = ps] :
               ps \in ProgramArrays(nb)} : nb \in 0..MaxStreams}

TitleKey == <<"t","i","t","l","e">>

\* containers that differ in what the head of the report shows
HeaderFiles ==
    {[EmptyContainer EXCEPT !.streams = StreamsOf(nb), !.duration = d,
                            !.start_time = st, !.bit_rate = br,
                            !.metadata = md, !.chapters = ChaptersOf(nc),
                            !.programs = IF nb = 2
                                         THEN <<ProgramAt(0, <<1>>)>>
                                         ELSE <<>>] :
        nb \in 0..2,
        d \in {AV_NOPTS_VALUE, I64(0), I64(754995000)},
        st \in {AV_NOPTS_VALUE, I64(0), I64(250000), I64(-1500000)},
        br \in {I64(0), I64(128000)},
        md \in {<<>>, <<Entry(TitleKey, <<"a">>)>>},
        nc \in 0..MaxChapters}

\* the durations of the enumerated files, in microseconds: around the
\* rounding steps, hours of three digits, and the largest ones
Durations ==
    {I64(0), I64(4999), I64(5000), I64(9999), I64(59994999), I64(59995000),
     I64(754995000), I64(2147483647),
     [neg |-> FALSE, mag |-> <<359, 999, 990, 0>>],
     [neg |-> FALSE, mag |-> <<360, 0, 0, 0>>],
     I64Sub(INT64_MAX, I64(5001)), I64Sub(INT64_MAX, I64(5000)),
     I64Sub(INT64_MAX, I64(4999)), INT64_MAX}

\* the start times of the enumerated files, in microseconds: of either sign,
\* around 2^31 seconds, and the largest ones
StartTimes ==
    {I64(0), I64(1), I64(-1), I64(999999), I64(-999999), I64(12345678),
     [neg |-> FALSE, mag |-> <<2, 147, 483, 647, 999, 999>>],
     [neg |-> FALSE, mag |-> <<2, 147, 483, 648, 0, 0>>],
     [neg |-> TRUE, mag |-> <<2, 147, 483, 648, 0, 0>>],
     [neg |-> FALSE, mag |-> <<4, 294, 967, 297, 500, 0>>],
     INT64_MAX, I64Neg(INT64_MAX)}

\* files of one stream with a known duration or a known start time
TimeFiles ==
    {[EmptyContainer EXCEPT !.streams = StreamsOf(1), !.duration = d] :
        d \in Durations}
    \cup {[EmptyContainer EXCEPT !.streams = StreamsOf(1), !.start_time = st] :
             st \in StartTimes}

Files == StructureFiles \cup HeaderFiles \cup TimeFiles

\* the argument vectors: no argument, a flag, an empty path, a path
Argvs ==
    {<< <<"f">> >>, << <<"f">>, <<"-","h">> >>, << <<"f">>, <<>> >>,
     << <<"f">>, <<"a",".","m","p","4">> >>}

(***************************************************************************)
(* main, open_input_file and dump_format as a program                      *)
(***************************************************************************)
\* av_log_get_level(): main never changes the default
LogLevel == AV_LOG_INFO

Init ==
    /\ pc = "main"
    /\ argv \in Argvs
    /\ file \in Files
    /\ fmt_ctx = NULL
    /\ out = <<>>
    /\ console = <<>>
    /\ printed = NULL
    /\ i = 0
    /\ j = 0
    /\ k = 0
    /\ total = 0
    /\ exit_code = NoExit
    /\ calls = <<>>
    /\ fails = 0
    /\ arg = <<>>

\* a variant that takes a flag for a path
BadArgumentsNoFlag(av) == Len(av) < 2

\* argc < 2 || argv[1][0] == '-'
BadArguments(av) == Len(av) < 2 \/ (av[2] # <<>> /\ av[2][1] = "-")

\* main up to the call of open_input_file
Main ==
    /\ pc = "main"
    /\ IF BadArguments(argv)
       THEN /\ console' = console \o <<"Usage: ">> \o argv[1]
                          \o <<" <file_path>", "\n">>
            /\ exit_code' = 1
            /\ pc' = "exited"
       ELSE /\ pc' = "open"
            /\ UNCHANGED <<console, exit_code>>
    /\ UNCHANGED <<argv, file, fmt_ctx, out, printed, i, j, k, total, calls,
                   fails, arg>>

\* open_input_file and the test of its result in main
OpenInputFile ==
    /\ pc = "open"
    /\ \E err \in {"ok", "open_failed", "no_stream_info"} :
          IF err = "ok"
          THEN /\ fmt_ctx' = <<file>>
               /\ pc' = "dump_format"
               /\ UNCHANGED <<console, exit_code>>
          ELSE /\ fmt_ctx' = IF err = "open_failed" THEN NULL ELSE <<file>>
               /\ console' = console
                             \o <<"[ERROR] Failed to open input file: ">>
                             \o argv[2] \o <<"\n">>
               /\ exit_code' = 1
               /\ pc' = "exited"
    /\ UNCHANGED <<argv, file, out, printed, i, j, k, total, calls, fails, arg>>

\* dump_format from its entry to the end of the chapters
DumpFormatHead ==
    /\ pc = "dump_format"
    /\ \E malloc_ok \in BOOLEAN :
          /\ (~malloc_ok) => (fails < MaxFails /\ Len(fmt_ctx[1].streams) # 0)
          /\ printed' = AllocPrinted(fmt_ctx[1], malloc_ok)
          /\ fails' = IF malloc_ok THEN fails ELSE fails + 1
          /\ calls' = IF Len(fmt_ctx[1].streams) # 0
                      THEN Append(calls, [pass |-> "printed", n |-> -1,
                                          ok |-> malloc_ok])
                      ELSE calls
    /\ out' = out \o HeadOutput(printed', fmt_ctx[1], argv[2], 0)
    /\ IF printed' = NULL
       THEN /\ pc' = "close"
            /\ UNCHANGED <<j, total>>
       ELSE /\ j' = 0
            /\ total' = 0
            /\ pc' = "programs"
    /\ UNCHANGED <<argv, file, fmt_ctx, console, i, k, exit_code, arg>>

\* one call of dump_stream_format from dump_format, in the pass named
CallDumpStream(pass, n, p) ==
    \E alloc \in {"ok", "ENOMEM", "EINVAL"} :
       /\ (alloc # "ok") => fails < MaxFails
       /\ out' = out \o Log(pass, n, p,
                    dump_stream_format(fmt_ctx[1], n, 0, LogLevel, alloc))
       /\ calls' = Append(calls, [pass |-> pass, n |-> n, ok |-> alloc = "ok"])
       /\ fails' = IF alloc = "ok" THEN fails ELSE fails + 1

\* the head of the loop over the programs: the program line and metadata
ProgramBegin ==
    /\ pc = "programs"
    /\ j < Len(fmt_ctx[1].programs)
    /\ LET program == fmt_ctx[1].programs[j + 1]
       IN  out' = out \o Log("program", j, -1, ProgramLine(program))
                  \o Log("program_metadata", j, -1,
                         dump_metadata(program.metadata, "    "))
    /\ k' = 0
    /\ pc' = "program_streams"
    /\ UNCHANGED <<argv, file, fmt_ctx, console, printed, i, j, total,
                   exit_code, calls, fails, arg>>

\* one turn of the loop over program->stream_index
ProgramStream ==
    /\ pc = "program_streams"
    /\ LET program == fmt_ctx[1].programs[j + 1]
       IN  /\ k < Len(program.stream_index)
           /\ CallDumpStream("program_stream", program.stream_index[k + 1], j)
           /\ printed' = <<MarkPrinted(printed[1],
                                       program.stream_index[k + 1])>>
    /\ k' = k + 1
    /\ UNCHANGED <<pc, argv, file, fmt_ctx, console, i, j, total, exit_code,
                   arg>>

\* the end of one program: total += program->nb_stream_indexes
ProgramEnd ==
    /\ pc = "program_streams"
    /\ k = Len(fmt_ctx[1].programs[j + 1].stream_index)
    /\ total' = total + Len(fmt_ctx[1].programs[j + 1].stream_index)
    /\ j' = j + 1
    /\ pc' = "programs"
    /\ UNCHANGED <<argv, file, fmt_ctx, out, console, printed, i, k,
                   exit_code, calls, fails, arg>>

\* after the programs: the "No Program" line, then on to the streams
ProgramsEnd ==
    /\ pc = "programs"
    /\ j = Len(fmt_ctx[1].programs)
    /\ out' = IF Len(fmt_ctx[1].programs) # 0
              THEN out \o NoProgram(fmt_ctx[1], total) ELSE out
    /\ i' = 0
    /\ pc' = "streams"
    /\ UNCHANGED <<argv, file, fmt_ctx, console, printed, j, k, total,
                   exit_code, calls, fails, arg>>

\* one turn of the final loop over the streams
StreamsStep ==
    /\ pc = "streams"
    /\ i < Len(fmt_ctx[1].streams)
    /\ IF printed[1][i] = 0
       THEN CallDumpStream("stream", i, -1)
       ELSE UNCHANGED <<out, calls, fails>>
    /\ i' = i + 1
    /\ UNCHANGED <<pc, argv, file, fmt_ctx, console, printed, j, k, total,
                   exit_code, arg>>

\* av_free(printed) and the return of dump_format
DumpFormatReturn ==
    /\ pc = "streams"
    /\ i = Len(fmt_ctx[1].streams)
    /\ printed' = NULL
    /\ pc' = "close"
    /\ UNCHANGED <<argv, file, fmt_ctx, out, console, i, j, k, total,
                   exit_code, calls, fails, arg>>

\* avformat_close_input and return 0
Close ==
    /\ pc = "close"
    /\ fmt_ctx' = NULL
    /\ exit_code' = 0
    /\ pc' = "exited"
    /\ UNCHANGED <<argv, file, out, console, printed, i, j, k, total, calls,
                   fails, arg>>

Next ==
    \/ Main
    \/ OpenInputFile
    \/ DumpFormatHead
    \/ ProgramBegin
    \/ ProgramStream
    \/ ProgramEnd
    \/ ProgramsEnd
    \/ StreamsStep
    \/ DumpFormatReturn
    \/ Close

Spec == Init /\ [][Next]_vars

(***************************************************************************)
(* dump_metadata and dump_stream_format on their own                       *)
(***************************************************************************)
\* the bytes of the enumerated values: two printable ones and the five that
\* dump_metadata splits on
ValueBytes == {"a", "b", BS, LF, VT, FF, CR}

\* every value of at most MaxValueLen bytes
Values == UNION {[1..l -> ValueBytes] : l \in 0..MaxValueLen}

\* the keys of the enumerated mappings
Keys ==
    {Language, <<"L","A","N","G","U","A","G","E">>, TitleKey, <<"k">>}

\* the mappings av_dict_set builds: no two keys equal up to case
Mappings ==
    {m \in UNION {[1..l -> [key : Keys,
                            value : {<<"x">>, <<"a", LF, "b", CR>>}]] :
                     l \in 0..MaxEntries} :
        \A c1, c2 \in 1..Len(m) :
           c1 # c2 => ~KeyMatches(m[c1].key, m[c2].key, 0)}

\* the calls of dump_metadata: the indents are those of its four call sites
MetadataCalls ==
    {[m |-> <<Entry(TitleKey, v)>>, indent |-> "  "] : v \in Values}
    \cup {[m |-> m, indent |-> ind] :
             m \in Mappings, ind \in {"  ", "    ", "      "}}

InitFunction(args) ==
    /\ pc = "call"
    /\ arg \in args
    /\ argv = <<>>
    /\ file = <<>>
    /\ fmt_ctx = NULL
    /\ out = <<>>
    /\ console = <<>>
    /\ printed = NULL
    /\ i = 0
    /\ j = 0
    /\ k = 0
    /\ total = 0
    /\ exit_code = NoExit
    /\ calls = <<>>
    /\ fails = 0

InitMetadata == InitFunction(MetadataCalls)

\* one call dump_metadata(NULL, arg.m, arg.indent)
CallDumpMetadata ==
    /\ pc = "call"
    /\ out' = Log("dump_metadata", -1, -1, dump_metadata(arg.m, arg.indent))
    /\ pc' = "ret"
    /\ UNCHANGED <<argv, file, fmt_ctx, console, printed, i, j, k, total,
                   exit_code, calls, fails, arg>>

SpecMetadata == InitMetadata /\ [][CallDumpMetadata]_vars

\* the run lengths of the long values: one byte, and around the 255 bytes
\* that "%.*s" is given at most
RunLengths == {1, 254, 255, 256, 257, 300}

\* a run of n bytes: "a" for the first 255 of them, "b" from there on
Run(n) == [t \in 1..n |-> IF t <= 255 THEN "a" ELSE "b"]

\* one run, or two runs with a control byte between them
LongValues ==
    {Run(n) : n \in RunLengths}
    \cup {Run(n) \o <<c>> \o Run(n2) :
             n \in RunLengths, n2 \in RunLengths, c \in {LF, CR, BS}}

\* the calls of dump_metadata on a mapping of one long value
LongCalls ==
    {[m |-> <<Entry(TitleKey, v)>>, indent |-> "  "] : v \in LongValues}

InitLong == InitFunction(LongCalls)

SpecLong == InitLong /\ [][CallDumpMetadata]_vars

\* the disposition flags, one bit each
Flags ==
    {AV_DISPOSITION_DEFAULT, AV_DISPOSITION_DUB, AV_DISPOSITION_ORIGINAL,
     AV_DISPOSITION_COMMENT, AV_DISPOSITION_LYRICS, AV_DISPOSITION_KARAOKE,
     AV_DISPOSITION_FORCED, AV_DISPOSITION_HEARING_IMPAIRED,
     AV_DISPOSITION_VISUAL_IMPAIRED, AV_DISPOSITION_CLEAN_EFFECTS,
     AV_DISPOSITION_ATTACHED_PIC, AV_DISPOSITION_TIMED_THUMBNAILS,
     AV_DISPOSITION_NON_DIEGETIC, AV_DISPOSITION_CAPTIONS,
     AV_DISPOSITION_DESCRIPTIONS, AV_DISPOSITION_METADATA,
     AV_DISPOSITION_DEPENDENT, AV_DISPOSITION_STILL_IMAGE}

\* the sets of at most n flags
RECURSIVE FlagSets(_)
FlagSets(n) ==
    IF n = 0 THEN {{}}
    ELSE LET smaller == FlagSets(n - 1)
         IN  smaller \cup {fs \cup {f} : fs \in smaller, f \in Flags}

\* the bitmask of a set of flags
RECURSIVE Mask(_)
Mask(fs) ==
    IF fs = {} THEN 0
    ELSE LET f == CHOOSE f \in fs : TRUE IN f + Mask(fs \ {f})

\* the enumerated dispositions
DispositionMasks ==
    {Mask(fs) : fs \in FlagSets(MaxFlags)}
    \cup {Mask(Flags \ fs) : fs \in FlagSets(MaxFlags)}

\* a container of the one stream st
OneStream(st) == [EmptyContainer EXCEPT !.streams = <<st>>]

\* streams of every disposition
DispositionCalls ==
    {[ic |-> OneStream([st EXCEPT !.disposition = d]),
      level |-> AV_LOG_INFO,
      alloc |-> al] :
        st \in {VideoStream, AudioStream, SubtitleStream},
        d \in DispositionMasks,
        al \in {"ok", "ENOMEM", "EINVAL"}}

\* streams with each of the three rates set, or zero in either term
RateCalls ==
    {[ic |-> OneStream([st EXCEPT !.avg_frame_rate = fr,
                                  !.r_frame_rate = rr,
                                  !.time_base = tb]),
      level |-> AV_LOG_INFO,
      alloc |-> "ok"] :
        st \in {VideoStream, AudioStream},
        fr \in {Q(0, 0), Q(0, 1), Q(1, 0), Q(25, 1)},
        rr \in {Q(0, 0), Q(0, 1), Q(1, 0), Q(30000, 1001)},
        tb \in {Q(0, 0), Q(0, 1), Q(1, 0), Q(1, 90000)}}

\* video streams whose own aspect ratio is zero, equal to the codec
\* parameters' one (in the same or in other terms) or different from it
AspectStreamCalls ==
    {[ic |-> OneStream([VideoStream EXCEPT
                           !.sample_aspect_ratio = sar,
                           !.codecpar = [VideoPar EXCEPT
                                            !.width = sz[1], !.height = sz[2],
                                            !.sample_aspect_ratio = par]]),
      level |-> AV_LOG_INFO,
      alloc |-> "ok"] :
        sz \in {<<1920, 1080>>, <<720, 576>>, <<1921, 1079>>},
        sar \in {Q(0, 1), Q(1, 1), Q(16, 15), Q(32, 30), Q(4, 3), Q(1, 0),
                 Q(1000003, 1000001)},
        par \in {Q(0, 1), Q(0, 0), Q(1, 1), Q(16, 15), Q(2, 0)}}

\* the calls of dump_stream_format: a container of one stream
StreamCalls == DispositionCalls \cup RateCalls \cup AspectStreamCalls

InitStream == InitFunction(StreamCalls)

\* one call dump_stream_format(arg.ic, 0, 0)
CallDumpStreamFormat ==
    /\ pc = "call"
    /\ out' = Log("dump_stream_format", 0, -1,
                  dump_stream_format(arg.ic, 0, 0, arg.level, arg.alloc))
    /\ pc' = "ret"
    /\ UNCHANGED <<argv, file, fmt_ctx, console, printed, i, j, k, total,
                   exit_code, calls, fails, arg>>

SpecStream == InitStream /\ [][CallDumpStreamFormat]_vars

\* the rates print_fps is called with: small ones over a few denominators,
\* and the usual and the large ones
Rates ==
    {Q(n, d) : n \in 0..MaxRateNum, d \in {1, 2, 8, 200, 1001}}
    \cup {Q(24000, 1001), Q(30000, 1001), Q(2997, 100), Q(201, 200),
          Q(48000, 1), Q(90000, 1), Q(100000, 1), Q(1000000, 1),
          Q(1999, 2), Q(671089, 1), Q(24000003, 500)}

FpsCalls == {[q |-> q, postfix |-> pf] : q \in Rates, pf \in {"fps", "tbr, "}}

InitFps == InitFunction(FpsCalls)

\* one call print_fps(av_q2d(arg.q), arg.postfix)
CallPrintFps ==
    /\ pc = "call"
    /\ out' = Log("print_fps", -1, -1, print_fps(arg.q, arg.postfix))
    /\ pc' = "ret"
    /\ UNCHANGED <<argv, file, fmt_ctx, console, printed, i, j, k, total,
                   exit_code, calls, fails, arg>>

SpecFps == InitFps /\ [][CallPrintFps]_vars

\* the parameters of a data stream
DataPar ==
    [SubtitlePar EXCEPT !.codec_type = "data", !.codec_name = "bin_data"]

\* the codec context of the parameters par
ContextOf(par) ==
    [avcodec_parameters_to_context(par) EXCEPT !.dump_separator = <<", ">>]

\* the declared bit rates and maximum rates of the enumerated contexts
BitRates == {I64(0), I64(999), I64(1000), I64(128000), INT64_MAX}

MaxRates == {I64(0), I64(-1), I64(2500000)}

\* sample rate and channel count: usual ones, and those whose product times
\* eight is next to 2^63
SampleLayouts ==
    {<<48000, 2>>, <<0, 2>>, <<44100, 6>>, <<1073741823, 1073741825>>,
     <<1073741824, 1073741824>>, <<2147483647, 2147483647>>}

\* contexts of the four codec types with every bit rate and maximum rate
BitrateCalls ==
    {[enc |-> [ContextOf(par) EXCEPT !.bit_rate = br, !.rc_max_rate = mr],
      level |-> AV_LOG_INFO] :
        par \in {VideoPar, AudioPar, DataPar, SubtitlePar},
        br \in BitRates, mr \in MaxRates}
    \cup {[enc |-> [ContextOf(AudioPar) EXCEPT
                       !.bit_rate = br, !.rc_max_rate = mr,
                       !.bits_per_sample = bps, !.sample_rate = sl[1],
                       !.nb_channels = sl[2]],
           level |-> AV_LOG_INFO] :
             br \in {I64(0), I64(128000)}, mr \in MaxRates,
             bps \in {0, 8, 16, 64}, sl \in SampleLayouts}

\* the picture sizes and sample aspect ratios of the enumerated contexts
Sizes == {<<1920, 1080>>, <<720, 576>>, <<1921, 1079>>, <<0, 0>>}

AspectRatios ==
    {Q(0, 1), Q(1, 1), Q(16, 15), Q(64, 45), Q(4, 3), Q(1001, 1000),
     Q(1000003, 1000001)}

\* video contexts of every size and sample aspect ratio
AspectCalls ==
    {[enc |-> [ContextOf(VideoPar) EXCEPT !.width = sz[1], !.height = sz[2],
                                          !.sample_aspect_ratio = sar],
      level |-> AV_LOG_INFO] :
        sz \in Sizes, sar \in AspectRatios}

\* av_log_get_level(): info, verbose, debug and the level above debug
Levels == {AV_LOG_INFO, AV_LOG_VERBOSE, AV_LOG_DEBUG, AV_LOG_DEBUG + 8}

\* rationals with a zero numerator, a zero denominator or both, and one
\* that is not in lowest terms
ZeroRatios == {Q(0, 0), Q(0, 1), Q(1, 0), Q(2, 50)}

\* contexts of the four codec types, with and without a picture size, whose
\* time base and sample aspect ratio have zero terms, at every log level
ZeroCalls ==
    {[enc |-> [ContextOf(par) EXCEPT !.time_base = tb,
                                     !.sample_aspect_ratio = sar,
                                     !.width = w],
      level |-> level] :
        par \in {VideoPar, AudioPar, DataPar, SubtitlePar},
        tb \in ZeroRatios, sar \in ZeroRatios, w \in {0, 1920},
        level \in Levels}

\* the parameters of an attached font and of a stream of unknown type
AttachmentPar ==
    [SubtitlePar EXCEPT !.codec_type = "attachment", !.codec_name = "ttf"]

UnknownPar ==
    [SubtitlePar EXCEPT !.codec_type = "unknown", !.codec_name = "none"]

\* attachment and unknown contexts with and without a profile, a codec tag,
\* a picture size, a bit rate and a maximum rate, at every log level
OtherCalls ==
    {[enc |-> [ContextOf(par) EXCEPT !.profile = pr, !.codec_tag = tag[1],
                                     !.fourcc = tag[2], !.width = w,
                                     !.height = w, !.bit_rate = br,
                                     !.rc_max_rate = mr,
                                     !.time_base = Q(0, 0)],
      level |-> level] :
        par \in {AttachmentPar, UnknownPar},
        pr \in {NULL, <<"Main">>},
        tag \in {<<0, "">>, <<1684104052, "text">>},
        w \in {0, 640},
        br \in {I64(0), I64(128000)},
        mr \in {I64(0), I64(2500000)},
        level \in Levels}

CodecCalls == BitrateCalls \cup AspectCalls \cup ZeroCalls \cup OtherCalls

InitCodec == InitFunction(CodecCalls)

\* what is logged when a division by zero is executed: up to it only, when
\* the division traps; all of it, with DivByZero for the quotients, when it
\* yields some value
Divided(tokens, trap) ==
    IF trap /\ \E t \in 1..Len(tokens) : tokens[t] = DivByZero
    THEN SubSeq(tokens, 1,
                CHOOSE t \in 1..Len(tokens) :
                    /\ tokens[t] = DivByZero
                    /\ \A u \in 1..(t - 1) : tokens[u] # DivByZero)
    ELSE tokens

\* one call print_codec(arg.enc)
CallPrintCodec ==
    /\ pc = "call"
    /\ \E trap \in BOOLEAN :
          out' = Log("print_codec", -1, -1,
                     Divided(print_codec(arg.enc, arg.level), trap))
    /\ pc' = "ret"
    /\ UNCHANGED <<argv, file, fmt_ctx, console, printed, i, j, k, total,
                   exit_code, calls, fails, arg>>

SpecCodec == InitCodec /\ [][CallPrintCodec]_vars

(***************************************************************************)
(* What the claims speak of                                                *)
(***************************************************************************)
\* dump_format has returned to main and the context is still open
Returned == pc = "close"

\* the allocation of the marker array was attempted and failed
MarkerFailed ==
    \E c \in 1..Len(calls) : calls[c].pass = "printed" /\ ~calls[c].ok

\* the number of tokens txt logged from the place site
Count(site, txt) ==
    Cardinality({t \in 1..Len(out) : out[t].site = site /\ out[t].txt = txt})

\* the number of report blocks of stream s written in the pass: each
\* block starts with the one token "  Stream #"
Rendered(pass, s) ==
    Cardinality({t \in 1..Len(out) :
                    /\ out[t].site = pass
                    /\ out[t].n = s
                    /\ out[t].txt = "  Stream #"})

\* the number of calls of dump_stream_format for stream s in the pass that
\* returned early because the codec context could not be set up
Dropped(pass, s) ==
    Cardinality({c \in 1..Len(calls) :
                    calls[c].pass = pass /\ calls[c].n = s /\ ~calls[c].ok})

\* the number of occurrences of stream s in the programs' index lists
Occurrences(ic, s) ==
    Cardinality({pr \in (1..Len(ic.programs)) \X (1..MaxRefs + MaxStreams) :
                    /\ pr[2] <= Len(ic.programs[pr[1]].stream_index)
                    /\ ic.programs[pr[1]].stream_index[pr[2]] = s})

\* the number of stream indexes the programs list, duplicates counted
Claimed(ic) ==
    Cardinality({pr \in (1..Len(ic.programs)) \X (1..MaxRefs + MaxStreams) :
                    pr[2] <= Len(ic.programs[pr[1]].stream_index)})

StreamIndexes(ic) == 0..(Len(ic.streams) - 1)

\* C1: when dump_format has run on a container with at least one stream and
\* the marker array was allocated, every stream has one block per occurrence
\* in a program's index list and, in the final pass, one block if no program
\* lists it and none otherwise -- a block being missing exactly for a call
\* whose codec context could not be set up.
C1_RenderedPerOccurrence ==
    (Returned /\ ~MarkerFailed /\ Len(fmt_ctx[1].streams) >= 1) =>
        \A s \in StreamIndexes(fmt_ctx[1]) :
           /\ Rendered("program_stream", s) + Dropped("program_stream", s)
                 = Occurrences(fmt_ctx[1], s)
           /\ Rendered("stream", s) + Dropped("stream", s)
                 = (IF Occurrences(fmt_ctx[1], s) = 0 THEN 1 ELSE 0)

\* a stream listed by two programs was rendered exactly twice and not a third
\* time, while a stream no program lists was rendered once, in the final pass
C1_Witness ==
    /\ Returned
    /\ fails = 0
    /\ Len(fmt_ctx[1].programs) = 2
    /\ \E s \in StreamIndexes(fmt_ctx[1]) :
          /\ fmt_ctx[1].programs[1].stream_index = <<s>>
          /\ fmt_ctx[1].programs[2].stream_index = <<s>>
          /\ Rendered("program_stream", s) = 2
          /\ Rendered("stream", s) = 0
    /\ \E s \in StreamIndexes(fmt_ctx[1]) :
          /\ Occurrences(fmt_ctx[1], s) = 0
          /\ Rendered("stream", s) = 1

\* the section of the report a place of dump_format belongs to
Section(site) ==
    CASE site = "header" -> 0
      [] site = "metadata" -> 1
      [] site = "duration" -> 2
      [] site = "start" -> 3
      [] site = "bitrate" -> 4
      [] site = "chapters" -> 5
      [] site \in {"chapter", "chapter_metadata"} -> 6
      [] site \in {"program", "program_metadata", "program_stream"} -> 7
      [] site = "no_program" -> 8
      [] site = "stream" -> 9

\* the program a token of the programs section was written for
ProgramOf(e) == IF e.site = "program_stream" THEN e.p ELSE e.n

\* the place of a token within its chapter or program
Part(site) ==
    CASE site \in {"chapter", "program"} -> 0
      [] site \in {"chapter_metadata", "program_metadata"} -> 1
      [] OTHER -> 2

\* token e1 may come before token e2: by section, within the chapters by
\* chapter and within the programs by program, and within one chapter or
\* program by part.  The relation is transitive, so a log is in order when
\* every token is in order with the next one.
InOrder(e1, e2) ==
    \/ Section(e1.site) < Section(e2.site)
    \/ /\ Section(e1.site) = Section(e2.site)
       /\ CASE Section(e1.site) = 6 ->
                  \/ e1.n < e2.n
                  \/ e1.n = e2.n /\ Part(e1.site) <= Part(e2.site)
            [] Section(e1.site) = 7 ->
                  \/ ProgramOf(e1) < ProgramOf(e2)
                  \/ /\ ProgramOf(e1) = ProgramOf(e2)
                     /\ Part(e1.site) <= Part(e2.site)
            [] OTHER -> TRUE

\* the stream indexes of the blocks written for program c, in output order
BlocksOfProgram(c) ==
    LET starts == SelectSeq(out, LAMBDA e : /\ e.site = "program_stream"
                                            /\ e.p = c
                                            /\ e.txt = "  Stream #")
    IN  [t \in 1..Len(starts) |-> starts[t].n]

\* the stream indexes of the blocks of the final pass, in output order
BlocksOfFinalPass ==
    LET starts == SelectSeq(out, LAMBDA e : /\ e.site = "stream"
                                            /\ e.txt = "  Stream #")
    IN  [t \in 1..Len(starts) |-> starts[t].n]

\* C2: the report comes in the fixed order of sections: the header line, the
\* container metadata, the one Duration/start/bitrate line, the Chapters
\* section (chapters by index, each before its metadata) only if there are
\* chapters, the programs in order (line, metadata, streams as listed) only
\* if there are programs, the optional "No Program" line, the unassigned
\* streams by increasing index.
C2_SectionOrder ==
    (Returned /\ ~MarkerFailed /\ Len(fmt_ctx[1].streams) >= 1) =>
        LET ic == fmt_ctx[1]
        IN  /\ out[1].site = "header" /\ out[1].txt = "Input"
            /\ Count("header", "Input") = 1
            /\ Count("duration", "  Duration: ") = 1
            /\ Count("bitrate", ", bitrate: ") = 1
            /\ \A t \in 1..(Len(out) - 1) : InOrder(out[t], out[t + 1])
            /\ Count("chapters", "  Chapters:")
                  = (IF Len(ic.chapters) # 0 THEN 1 ELSE 0)
            /\ \A c \in 0..(MaxChapters + 1) :
                  Cardinality({t \in 1..Len(out) :
                                  /\ out[t].site = "chapter"
                                  /\ out[t].n = c
                                  /\ out[t].txt = "    Chapter #"})
                     = (IF c < Len(ic.chapters) THEN 1 ELSE 0)
            /\ \A c \in 0..(MaxPrograms + 1) :
                  /\ Cardinality({t \in 1..Len(out) :
                                     /\ out[t].site = "program"
                                     /\ out[t].n = c
                                     /\ out[t].txt = "  Program "})
                        = (IF c < Len(ic.programs) THEN 1 ELSE 0)
                  /\ (c < Len(ic.programs) /\ fails = 0)
                        => BlocksOfProgram(c) = ic.programs[c + 1].stream_index
            /\ \A a, b \in 1..Len(BlocksOfFinalPass) :
                  a < b => BlocksOfFinalPass[a] < BlocksOfFinalPass[b]
            /\ (Len(ic.chapters) = 0 /\ Len(ic.programs) = 0)
                  => \A t \in 1..Len(out) :
                        Section(out[t].site) \in {0, 1, 2, 3, 4, 9}

\* a finished report with container metadata, a chapter with metadata, a
\* program with metadata and a stream, and an unassigned stream
C2_Witness ==
    /\ Returned
    /\ fails = 0
    /\ \A site \in {"header", "metadata", "duration", "start", "bitrate",
                    "chapters", "chapter", "chapter_metadata", "program",
                    "program_metadata", "program_stream", "no_program",
                    "stream"} :
          \E t \in 1..Len(out) : out[t].site = site

\* the text of the tokens from a set of places, in output order
TextOf(sites) ==
    LET sel == SelectSeq(out, LAMBDA e : e.site \in sites)
    IN  [t \in 1..Len(sel) |-> sel[t].txt]

\* neither duration, start time nor bit rate is set
NothingKnown(ic) ==
    /\ ic.duration = AV_NOPTS_VALUE
    /\ ic.start_time = AV_NOPTS_VALUE
    /\ ic.bit_rate = I64(0)

\* C3: for every container, whatever its number of streams (zero too), with
\* no duration, start time and bit rate set, dump_format writes the header
\* line and the line "  Duration: N/A, bitrate: N/A" without a start clause.
C3_NothingKnownLine ==
    (Returned /\ fails = 0 /\ NothingKnown(fmt_ctx[1])) =>
        /\ Count("header", "Input") = 1
        /\ TextOf({"duration", "start", "bitrate"})
              = <<"  Duration: ", "N/A", ", bitrate: ", "N/A", "\n">>

\* C4: when the marker array cannot be allocated dump_format writes nothing:
\* the allocation is the first thing it does, and no text is written after
\* it failed.
C4_NoOutputWithoutMarkers ==
    /\ MarkerFailed => out = <<>>
    /\ out # <<>> => (calls # <<>> /\ calls[1].pass = "printed" /\ calls[1].ok)

\* the allocation failed for a container with streams, chapters and
\* metadata, and the program has come to its end
C4_Witness ==
    /\ pc = "exited"
    /\ MarkerFailed
    /\ Len(file.streams) >= 1
    /\ Len(file.chapters) >= 1
    /\ file.metadata # <<>>
    /\ out = <<>>

\* C5: a failed allocation of the marker array reaches the caller: the exit
\* status of main differs from the one of a run that produced the report.
C5_FailureSignalled ==
    (pc = "exited" /\ MarkerFailed) => exit_code # 0

\* every stream has all the blocks the report should hold
Complete(ic) ==
    \A s \in StreamIndexes(ic) :
       /\ Rendered("program_stream", s) = Occurrences(ic, s)
       /\ Rendered("stream", s) = (IF Occurrences(ic, s) = 0 THEN 1 ELSE 0)

\* C6: a report is never truncated: when an allocation failed, either the
\* complete report was written or nothing was.
C6_NeverTruncated ==
    (Returned /\ fails > 0) => (out = <<>> \/ Complete(fmt_ctx[1]))

\* C7: with at least one program, "  No Program" is written exactly once,
\* after all program blocks and before the unassigned streams, iff the
\* programs list fewer stream indexes (duplicates counted) than the container
\* has streams; without programs it is never written.
C7_NoProgramLine ==
    (Returned /\ ~MarkerFailed) =>
        LET ic == fmt_ctx[1]
        IN  /\ Count("no_program", "  No Program")
                  = (IF Len(ic.programs) >= 1
                        /\ Claimed(ic) < Len(ic.streams) THEN 1 ELSE 0)
            /\ \A a \in {t \in 1..Len(out) : out[t].site = "no_program"} :
                  \A b \in 1..Len(out) :
                     out[b].site # "no_program"
                        => IF out[b].site = "stream" THEN a < b ELSE b < a

\* the line was written once between a program's block and an unassigned
\* stream
C7_Witness ==
    /\ Returned
    /\ fails = 0
    /\ Count("no_program", "  No Program") = 1
    /\ Rendered("program_stream", 0) = 1
    /\ Rendered("stream", 1) = 1

\* the tokens logged, without the places
Tokens == [t \in 1..Len(out) |-> out[t].txt]

\* the index of the first line break among the tokens toks, 0 if none
FirstBreak(toks) ==
    IF \E t \in 1..Len(toks) : toks[t] = "\n"
    THEN CHOOSE t \in 1..Len(toks) :
            toks[t] = "\n" /\ \A t2 \in 1..(t - 1) : toks[t2] # "\n"
    ELSE 0

\* the names of the tags in the order they are to appear
TagOrder ==
    <<"default", "dub", "original", "comment", "lyrics", "karaoke", "forced",
      "hearing impaired", "visual impaired", "clean effects", "attached pic",
      "timed thumbnails", "captions", "descriptions", "metadata", "dependent",
      "still image", "non-diegetic">>

\* the flag a tag stands for
FlagOf(tag) ==
    CASE tag = "default" -> AV_DISPOSITION_DEFAULT
      [] tag = "dub" -> AV_DISPOSITION_DUB
      [] tag = "original" -> AV_DISPOSITION_ORIGINAL
      [] tag = "comment" -> AV_DISPOSITION_COMMENT
      [] tag = "lyrics" -> AV_DISPOSITION_LYRICS
      [] tag = "karaoke" -> AV_DISPOSITION_KARAOKE
      [] tag = "forced" -> AV_DISPOSITION_FORCED
      [] tag = "hearing impaired" -> AV_DISPOSITION_HEARING_IMPAIRED
      [] tag = "visual impaired" -> AV_DISPOSITION_VISUAL_IMPAIRED
      [] tag = "clean effects" -> AV_DISPOSITION_CLEAN_EFFECTS
      [] tag = "attached pic" -> AV_DISPOSITION_ATTACHED_PIC
      [] tag = "timed thumbnails" -> AV_DISPOSITION_TIMED_THUMBNAILS
      [] tag = "captions" -> AV_DISPOSITION_CAPTIONS
      [] tag = "descriptions" -> AV_DISPOSITION_DESCRIPTIONS
      [] tag = "metadata" -> AV_DISPOSITION_METADATA
      [] tag = "dependent" -> AV_DISPOSITION_DEPENDENT
      [] tag = "still image" -> AV_DISPOSITION_STILL_IMAGE
      [] tag = "non-diegetic" -> AV_DISPOSITION_NON_DIEGETIC

\* the flag is set in the disposition
HasFlag(disposition, flag) == disposition % (2 * flag) >= flag

\* the parenthesised tags of the set flags, in the order of TagOrder
ExpectedTags(disposition) ==
    LET set == SelectSeq(TagOrder, LAMBDA tag : HasFlag(disposition, FlagOf(tag)))
    IN  [t \in 1..Len(set) |-> " (" \o set[t] \o ")"]

AllTags == {" (" \o TagOrder[t] \o ")" : t \in 1..Len(TagOrder)}

\* the length of the stream line up to the rates: the header, the codec
\* summary, the stream's aspect ratio
BeforeRates(call) ==
    LET st == call.ic.streams[1]
    IN  Len(StreamHeader(st, 0, 0))
        + Len(print_codec([avcodec_parameters_to_context(st.codecpar)
                              EXCEPT !.dump_separator = call.ic.dump_separator],
                          call.level))
        + Len(StreamSarDar(st))

\* C8: the parenthesised tags written by dump_stream_format are exactly the
\* set flags, each once, in the order default, dub, original, comment, lyrics,
\* karaoke, forced, hearing impaired, visual impaired, clean effects, attached
\* pic, timed thumbnails, captions, descriptions, metadata, dependent, still
\* image, non-diegetic; they come after the codec summary and rates and
\* before the line break.
C8_DispositionTags ==
    (pc = "ret" /\ arg.alloc = "ok") =>
        LET st   == arg.ic.streams[1]
            tags == ExpectedTags(st.disposition)
            nl   == FirstBreak(Tokens)
            from == nl - Len(tags)
        IN  /\ nl > 0 /\ from > BeforeRates(arg)
            /\ SubSeq(Tokens, from, nl - 1) = tags
            /\ \A t \in 1..(from - 1) : Tokens[t] \notin AllTags

\* a stream with non-diegetic (bit 12) and captions (bit 16) set: the tags
\* are not in the order of the bits
C8_Witness ==
    /\ pc = "ret"
    /\ arg.alloc = "ok"
    /\ arg.ic.streams[1].disposition
          = AV_DISPOSITION_NON_DIEGETIC + AV_DISPOSITION_CAPTIONS
    /\ \E t \in 1..(Len(out) - 2) :
          /\ out[t].txt = " (captions)"
          /\ out[t + 1].txt = " (non-diegetic)"
          /\ out[t + 2].txt = "\n"

\* sixteen blanks
Blanks ==
    <<" ", " ", " ", " ", " ", " ", " ", " ",
      " ", " ", " ", " ", " ", " ", " ", " ">>

\* the continuation prefix: the indent, two blanks, sixteen blanks, ": "
Continuation(indent) == <<indent, "  ">> \o Blanks \o <<": ">>

\* what one byte of a value becomes
ByteText(b, indent) ==
    CASE b = LF -> <<"\n">> \o Continuation(indent)
      [] b = CR -> <<" ">>
      [] b \in {BS, VT, FF} -> <<>>
      [] OTHER -> <<b>>

RECURSIVE ValueText(_, _)
ValueText(value, indent) ==
    IF value = <<>> THEN <<>>
    ELSE ByteText(Head(value), indent) \o ValueText(Tail(value), indent)

\* the key in sixteen columns: the enumerated keys are shorter
PaddedKey(key) == SubSeq(key \o Blanks, 1, 16)

\* the lines of the entries whose key is not "language", in mapping order
RECURSIVE EntryLines(_, _)
EntryLines(m, indent) ==
    IF m = <<>> THEN <<>>
    ELSE (IF Head(m).key = Language THEN <<>>
          ELSE <<indent, "  ">> \o PaddedKey(Head(m).key) \o <<": ">>
               \o ValueText(Head(m).value, indent) \o <<"\n">>)
         \o EntryLines(Tail(m), indent)

\* the number of bytes b in the value
CountByte(value, b) == Cardinality({t \in 1..Len(value) : value[t] = b})

\* the number of line breaks logged
Breaks == Cardinality({t \in 1..Len(out) : out[t].txt = "\n"})

\* C9: dump_metadata writes nothing when the mapping is empty or is one entry
\* whose key is "language"; for every other mapping it writes the
\* "Metadata:" line and then one line per entry whose key is not "language",
\* in mapping order.
C9_LanguageOnlySuppressed ==
    pc = "ret" =>
        IF arg.m = <<>> \/ (Len(arg.m) = 1 /\ arg.m[1].key = Language)
        THEN out = <<>>
        ELSE Tokens = <<arg.indent, "Metadata:", "\n">>
                      \o EntryLines(arg.m, arg.indent)

\* C10: in a value that dump_metadata renders, each byte 0x0A ends the line
\* and starts a continuation line with the indent, the blank key columns and
\* ": ", each byte 0x0D becomes one blank, each byte 0x08, 0x0B, 0x0C is
\* dropped; a value with k bytes 0x0A makes k + 1 lines.
C10_ControlBytes ==
    (pc = "ret" /\ out # <<>>) =>
        /\ Tokens = <<arg.indent, "Metadata:", "\n">>
                    \o EntryLines(arg.m, arg.indent)
        /\ Len(arg.m) = 1
              => Breaks = 1 + CountByte(arg.m[1].value, LF) + 1

\* a value of a dropped byte, a line feed and a carriage return was rendered
\* on two lines, the second one a blank
C10_Witness ==
    /\ pc = "ret"
    /\ arg.m = <<Entry(TitleKey, <<BS, LF, CR>>)>>
    /\ Breaks = 3
    /\ Tokens[Len(Tokens) - 1] = " "
    /\ Tokens[Len(Tokens) - 2] = ": "

\* the decimal numerals with prec decimals nearest to num/den >= 0; two of
\* them when num/den is half way
Decimals(num, den, prec) ==
    LET t    == num * Pow10(prec)
        down == t \div den
        near == IF 2 * (t % den) < den THEN {down}
                ELSE IF 2 * (t % den) > den THEN {down + 1}
                ELSE {down, down + 1}
    IN  {IF prec = 0 THEN Dec(u)
         ELSE Dec(u \div Pow10(prec)) \o "." \o DecPad(u % Pow10(prec), prec) :
            u \in near}

\* the texts the classification of v allows for the rate q
ClaimedForms(q, v, postfix) ==
    IF v = 0 THEN {<<d, " ", postfix>> : d \in Decimals(q.num, q.den, 4)}
    ELSE IF v % 100 # 0
         THEN {<<d, " ", postfix>> : d \in Decimals(q.num, q.den, 2)}
    ELSE IF v % 100000 # 0
         THEN {<<d, " ", postfix>> : d \in Decimals(q.num, q.den, 0)}
    ELSE {<<d, "k", " ", postfix>> : d \in Decimals(q.num, 1000 * q.den, 0)}

\* 100 * q is half way between two integers
HundredfoldTie(q) == 2 * ((100 * q.num) % q.den) = q.den

\* the integers nearest to 100 * q
HundredfoldRounded(q) ==
    LET down == (100 * q.num) \div q.den
    IN  IF HundredfoldTie(q) THEN {down, down + 1}
        ELSE IF 2 * ((100 * q.num) % q.den) < q.den THEN {down}
        ELSE {down + 1}

\* C11: print_fps classifies a rate >= 0 by v, the rate times 100 rounded to
\* an integer: v = 0 gives four decimals, v mod 100 # 0 two decimals,
\* v mod 100000 # 0 the integer, otherwise the thousands with "k".
C11_FpsClassification ==
    pc = "ret" =>
        \E v \in HundredfoldRounded(arg.q) :
           Tokens \in ClaimedForms(arg.q, v, arg.postfix)

\* C12: a rate whose hundredfold is n + 1/2 is classified as n + 1.
C12_TiesAwayFromZero ==
    (pc = "ret" /\ HundredfoldTie(arg.q)) =>
        Tokens \in ClaimedForms(arg.q, ((100 * arg.q.num) \div arg.q.den) + 1,
                                arg.postfix)

\* the rate is present: neither term is zero
Present(q) == q.num # 0 /\ q.den # 0

\* the number print_fps writes for the enumerated rates
RateNumber(q) ==
    CASE q = Q(25, 1) -> <<"25">>
      [] q = Q(30000, 1001) -> <<"29.97">>
      [] q = Q(24000, 1001) -> <<"23.98">>
      [] q = Q(90000, 1) -> <<"90", "k">>
      [] q = Q(48000, 1) -> <<"48", "k">>

\* the rates of a stream that are to be written, in order, with their names
PresentRates(st) ==
    IF st.codecpar.codec_type # "video" THEN <<>>
    ELSE SelectSeq(<< <<"fps", st.avg_frame_rate>>,
                      <<"tbr", st.r_frame_rate>>,
                      <<"tbn", Q(st.time_base.den, st.time_base.num)>> >>,
                   LAMBDA r : Present(r[2]))

\* the rate at place t of the present ones: the number, a blank, the name,
\* and a comma unless it is the last
RECURSIVE RatesFrom(_, _)
RatesFrom(rates, t) ==
    IF t > Len(rates) THEN <<>>
    ELSE RateNumber(rates[t][2])
         \o <<" ", IF t < Len(rates) THEN rates[t][1] \o ", " ELSE rates[t][1]>>
         \o RatesFrom(rates, t + 1)

\* the frame-rate text of a stream
ExpectedRates(st) ==
    IF PresentRates(st) = <<>> THEN <<>>
    ELSE <<", ">> \o RatesFrom(PresentRates(st), 1)

RateNames == {"fps", "fps, ", "tbr", "tbr, ", "tbn"}

\* C13: the three rates are written for video streams only; a rate is present
\* iff neither term is zero; the separator is written iff a rate is present;
\* the present rates come in the order fps, tbr, tbn, each but the last
\* followed by ", ".
C13_RateTrio ==
    (pc = "ret" /\ arg.alloc = "ok") =>
        LET st    == arg.ic.streams[1]
            rates == ExpectedRates(st)
            tags  == ExpectedTags(st.disposition)
            nl    == FirstBreak(Tokens)
            from  == nl - Len(tags) - Len(rates)
        IN  /\ from = BeforeRates(arg) + 1
            /\ SubSeq(Tokens, from, from + Len(rates) - 1) = rates
            /\ \A t \in 1..(from - 1) : Tokens[t] \notin RateNames

\* a video stream with fps and tbn but no tbr: "fps, " then "tbn"
C13_Witness ==
    /\ pc = "ret"
    /\ arg.ic.streams[1].codecpar.codec_type = "video"
    /\ arg.ic.streams[1].r_frame_rate = Q(1, 0)
    /\ \E t \in 1..(Len(out) - 7) :
          /\ out[t].txt = ", "
          /\ out[t + 1].txt = "25"
          /\ out[t + 3].txt = "fps, "
          /\ out[t + 4].txt = "90"
          /\ out[t + 5].txt = "k"
          /\ out[t + 7].txt = "tbn"

\* a number >= 0 in at least two decimal digits
TwoDigits(a) ==
    IF Len(a.mag) <= 1 /\ I64Int(a) < 10 THEN "0" \o I64Dec(a) ELSE I64Dec(a)

\* the bias of the duration d
Bias(d) == IF I64Le(d, I64Sub(INT64_MAX, I64(5000))) THEN I64(5000) ELSE I64(0)

\* (d + b) div 10000: the duration in hundredths of a second
Hundredths(d) == I64Div(I64Add(d, Bias(d)), 10000)

\* the duration line has been written for a file whose duration is known and
\* not negative
DurationWritten ==
    /\ fmt_ctx # NULL
    /\ Count("duration", "  Duration: ") = 1
    /\ fmt_ctx[1].duration # AV_NOPTS_VALUE
    /\ I64Le(I64(0), fmt_ctx[1].duration)

\* C14: for every known duration d >= 0 the fields HH:MM:SS.CC written are
\* those of (d + b) div 10000 hundredths, MM and SS below 60 and CC below 100,
\* with b = 5000 if d <= INT64_MAX - 5000 and b = 0 otherwise, so that d + b
\* is no more than INT64_MAX.
C14_DurationFields ==
    DurationWritten =>
        LET t == Hundredths(fmt_ctx[1].duration)
        IN  /\ I64Le(I64Add(fmt_ctx[1].duration, Bias(fmt_ctx[1].duration)),
                     INT64_MAX)
            /\ TextOf({"duration"})
                  = <<"  Duration: ",
                      TwoDigits(I64Div(t, 360000)), ":",
                      TwoDigits(I64Rem(I64Div(t, 6000), 60)), ":",
                      TwoDigits(I64Rem(I64Div(t, 100), 60)), ".",
                      TwoDigits(I64Rem(t, 100))>>

\* the largest duration was written without the bias
C14_Witness ==
    /\ DurationWritten
    /\ fmt_ctx[1].duration = INT64_MAX
    /\ TextOf({"duration"})
          = <<"  Duration: ", "2562047788", ":", "00", ":", "54", ".", "77">>

\* the six digits of a number below 10^6
SixDigits(n) ==
    Dec((n \div 100000) % 10) \o Dec((n \div 10000) % 10)
    \o Dec((n \div 1000) % 10) \o Dec((n \div 100) % 10)
    \o Dec((n \div 10) % 10) \o Dec(n % 10)

\* C15: the start clause is written iff the start time s is known; it shows
\* "-" iff s < 0, then |s| div 1000000 and the six digits of |s| mod 1000000.
C15_StartClause ==
    (fmt_ctx # NULL /\ Count("duration", "  Duration: ") = 1) =>
        LET s == fmt_ctx[1].start_time
        IN  IF s = AV_NOPTS_VALUE THEN TextOf({"start"}) = <<>>
            ELSE TextOf({"start"})
                    = <<", start: ", IF s.neg THEN "-" ELSE "",
                        MagDigits(MagDiv(s.mag, 1000000)), ".",
                        SixDigits(MagMod(s.mag, 1000000))>>

\* the product sample_rate * channels * bits_per_sample is above INT64_MAX
ProductExceeds(enc) ==
    MagCmp(MagMul(MagMul(MagOf(enc.sample_rate), MagOf(enc.nb_channels)),
                  MagOf(enc.bits_per_sample)),
           INT64_MAX.mag) > 0

\* the effective bit rate of the context
Effective(enc) ==
    IF enc.codec_type = "audio" /\ enc.bits_per_sample # 0
    THEN IF ProductExceeds(enc) THEN I64(0)
         ELSE I64Make(FALSE,
                      MagMul(MagMul(MagOf(enc.sample_rate),
                                    MagOf(enc.nb_channels)),
                             MagOf(enc.bits_per_sample)))
    ELSE enc.bit_rate

\* what print_codec is to append for the bit rate
ExpectedBitrate(enc) ==
    IF Effective(enc) # I64(0)
    THEN <<", ", MagDigits(MagDiv(Effective(enc).mag, 1000)), " kb/s">>
    ELSE IF ~enc.rc_max_rate.neg /\ enc.rc_max_rate.mag # <<>>
    THEN <<", max. ", MagDigits(MagDiv(enc.rc_max_rate.mag, 1000)), " kb/s">>
    ELSE <<>>

\* C16: the effective bit rate is the declared one, but for audio with a
\* fixed non-zero bits per sample it is sample_rate * channels *
\* bits_per_sample, or 0 if that exceeds the signed 64-bit range; print_codec
\* ends with ", <effective div 1000> kb/s" when it is non-zero, else with
\* ", max. <max_rate div 1000> kb/s" when the maximum rate is > 0, else with
\* neither.
C16_EffectiveBitrate ==
    (pc = "ret" /\ arg.enc.codec_type \in {"video", "audio", "data", "subtitle"}) =>
        LET tail == ExpectedBitrate(arg.enc)
            from == Len(Tokens) - Len(tail)
        IN  /\ from >= 0
            /\ SubSeq(Tokens, from + 1, Len(Tokens)) = tail
            /\ \A t \in 1..from : Tokens[t] \notin {" kb/s", ", max. "}

\* an audio context whose product is 2^63: the rate counts as 0 and the
\* maximum rate is shown
C16_Witness ==
    /\ pc = "ret"
    /\ arg.enc.codec_type = "audio"
    /\ arg.enc.bits_per_sample = 8
    /\ arg.enc.sample_rate = 1073741824
    /\ arg.enc.nb_channels = 1073741824
    /\ SubSeq(Tokens, Len(Tokens) - 2, Len(Tokens))
          = <<", max. ", "2500", " kb/s">>

\* the greatest common divisor by Euclid's algorithm
RECURSIVE Euclid(_, _)
Euclid(a, b) == IF b = 0 THEN a ELSE Euclid(b, a % b)

\* where the codec summary's SAR/DAR block starts; 0 if there is none
CodecBlock ==
    IF \E t \in 1..Len(Tokens) : Tokens[t] = " [SAR "
    THEN CHOOSE t \in 1..Len(Tokens) : Tokens[t] = " [SAR "
    ELSE 0

\* the block shows the sample aspect ratio of enc and, as DAR,
\* (width * SAR.num) : (height * SAR.den) in lowest terms when these fit
\* 1024 * 1024, else coprime terms within that bound
AspectShown(enc, at) ==
    LET n   == enc.width * enc.sample_aspect_ratio.num
        m   == enc.height * enc.sample_aspect_ratio.den
        g   == Euclid(n, m)
        dar == av_reduce(n, m, 1024 * 1024)
    IN  /\ at + 8 <= Len(Tokens)
        /\ SubSeq(Tokens, at, at + 8)
              = <<" [SAR ", Dec(enc.sample_aspect_ratio.num), ":",
                  Dec(enc.sample_aspect_ratio.den), " DAR ",
                  Dec(dar.num), ":", Dec(dar.den), "]">>
        /\ dar.den <= 1024 * 1024
        /\ dar.num <= 1024 * 1024
        /\ Euclid(dar.num, dar.den) = 1
        /\ (n \div g <= 1024 * 1024 /\ m \div g <= 1024 * 1024)
              => (dar.num = n \div g /\ dar.den = m \div g)

\* C17 as stated: in the video codec summary the SAR/DAR block is emitted iff
\* the codec sample aspect ratio numerator is non-zero, and its DAR is
\* (width * SAR.num) : (height * SAR.den) in lowest terms under 1024 * 1024.
C17_CodecAspect ==
    (pc = "ret" /\ arg.enc.codec_type = "video") =>
        /\ (CodecBlock # 0) = (arg.enc.sample_aspect_ratio.num # 0)
        /\ CodecBlock # 0 => AspectShown(arg.enc, CodecBlock)

\* C17 amended: in the video codec summary the SAR/DAR block is emitted iff
\* the width is non-zero and the codec sample aspect ratio numerator is
\* non-zero, and its DAR is (width * SAR.num) : (height * SAR.den) in lowest
\* terms when the reduced terms fit 1024 * 1024, else coprime terms within
\* that bound; 1920x1080 with SAR 1:1 shows DAR 16:9.
C17_CodecAspectSized ==
    (pc = "ret" /\ arg.enc.codec_type = "video") =>
        /\ (CodecBlock # 0) = (arg.enc.width # 0
                               /\ arg.enc.sample_aspect_ratio.num # 0)
        /\ CodecBlock # 0 => AspectShown(arg.enc, CodecBlock)
        /\ (arg.enc.width = 1920 /\ arg.enc.height = 1080
            /\ arg.enc.sample_aspect_ratio = Q(1, 1))
              => SubSeq(Tokens, CodecBlock + 4, CodecBlock + 8)
                    = <<" DAR ", "16", ":", "9", "]">>

\* 1920x1080 with SAR 1:1 has been summarised with DAR 16:9
C17_Witness ==
    /\ pc = "ret"
    /\ arg.enc.codec_type = "video"
    /\ arg.enc.width = 1920
    /\ arg.enc.height = 1080
    /\ arg.enc.sample_aspect_ratio = Q(1, 1)
    /\ CodecBlock # 0
    /\ SubSeq(Tokens, CodecBlock + 4, CodecBlock + 8)
          = <<" DAR ", "16", ":", "9", "]">>

\* the ratio q in lowest terms
Lowest(q) ==
    LET g == Euclid(q.num, q.den)
    IN  IF g = 0 THEN q ELSE Q(q.num \div g, q.den \div g)

\* the stream's own aspect ratio is non-zero and differs from the one in
\* its codec parameters
OwnAspect(st) ==
    /\ st.sample_aspect_ratio.num # 0
    /\ \/ st.codecpar.sample_aspect_ratio = Q(0, 0)
       \/ Lowest(st.sample_aspect_ratio)
              # Lowest(st.codecpar.sample_aspect_ratio)

\* the tokens between the codec summary and the rates
AfterSummary(call) ==
    LET st    == call.ic.streams[1]
        from  == Len(StreamHeader(st, 0, 0))
                 + Len(print_codec(
                       [avcodec_parameters_to_context(st.codecpar)
                           EXCEPT !.dump_separator = call.ic.dump_separator],
                       call.level))
        until == FirstBreak(Tokens) - Len(ExpectedTags(st.disposition))
                 - Len(ExpectedRates(st))
    IN  SubSeq(Tokens, from + 1, until - 1)

\* the display ratio of the stream: (width * SAR.num) : (height * SAR.den) in
\* lowest terms when these fit 1024 * 1024, else coprime terms in the bound
StreamDar(st) ==
    LET n   == st.codecpar.width * st.sample_aspect_ratio.num
        m   == st.codecpar.height * st.sample_aspect_ratio.den
        dar == av_reduce(n, m, 1024 * 1024)
    IN  IF Lowest(Q(n, m)).num <= 1024 * 1024
           /\ Lowest(Q(n, m)).den <= 1024 * 1024
        THEN Lowest(Q(n, m))
        ELSE IF dar.num <= 1024 * 1024 /\ dar.den <= 1024 * 1024
                /\ Euclid(dar.num, dar.den) = 1
        THEN dar
        ELSE Q(0, 0)

\* C18 as stated: dump_stream_format appends a stream-level SAR/DAR block
\* after the codec summary iff the stream's own sample aspect ratio is
\* non-zero and differs from the codec parameters' one, in the format of the
\* codec summary's block, "[SAR a:b DAR c:d]".
C18_StreamAspectBracketed ==
    (pc = "ret" /\ arg.alloc = "ok") =>
        LET st == arg.ic.streams[1]
        IN  AfterSummary(arg)
              = IF OwnAspect(st)
                THEN <<" [SAR ", Dec(st.sample_aspect_ratio.num), ":",
                       Dec(st.sample_aspect_ratio.den), " DAR ",
                       Dec(StreamDar(st).num), ":", Dec(StreamDar(st).den),
                       "]">>
                ELSE <<>>

\* C18 amended: dump_stream_format appends a stream-level SAR/DAR block after
\* the codec summary iff the stream's own sample aspect ratio is non-zero and
\* differs from the codec parameters' one; the block is ", SAR a:b DAR c:d",
\* without brackets, with the DAR reduced under the bound 1024 * 1024.
C18_StreamAspect ==
    (pc = "ret" /\ arg.alloc = "ok") =>
        LET st == arg.ic.streams[1]
        IN  AfterSummary(arg)
              = IF OwnAspect(st)
                THEN <<", SAR ", Dec(st.sample_aspect_ratio.num), ":",
                       Dec(st.sample_aspect_ratio.den), " DAR ",
                       Dec(StreamDar(st).num), ":", Dec(StreamDar(st).den)>>
                ELSE <<>>

\* a 720x576 stream of aspect 16:15 whose codec parameters say 1:1 has
\* been written with ", SAR 16:15 DAR 4:3"
C18_Witness ==
    /\ pc = "ret"
    /\ arg.alloc = "ok"
    /\ arg.ic.streams[1].sample_aspect_ratio = Q(16, 15)
    /\ arg.ic.streams[1].codecpar.sample_aspect_ratio = Q(1, 1)
    /\ arg.ic.streams[1].codecpar.width = 720
    /\ AfterSummary(arg)
          = <<", SAR ", "16", ":", "15", " DAR ", "4", ":", "3">>

\* the texts of a sequence joined into one
RECURSIVE Join(_)
Join(texts) == IF texts = <<>> THEN "" ELSE Head(texts) \o Join(Tail(texts))

\* the values of the mapping's "language" entries
LanguageOf(m) == SelectSeq(m, LAMBDA e : e.key = Language)

\* where the ": " before the codec summary is
FirstColon ==
    CHOOSE t \in 1..Len(Tokens) :
        /\ Tokens[t] = ": "
        /\ \A u \in 1..(t - 1) : Tokens[u] # ": "

\* C19: for a stream whose metadata has a "language" entry the stream line
\* carries "(<language value>)" between the header "  Stream #n:m[0x<id>]"
\* and the ": " before the codec summary; for a stream without that entry
\* nothing is inserted there.
C19_LanguageInline ==
    (pc = "ret" /\ arg.alloc = "ok") =>
        LET st == arg.ic.streams[1]
        IN  /\ SubSeq(Tokens, 1, 7)
                  = <<"  Stream #", "0", ":", "0", "[0x", Hex(st.id), "]">>
            /\ Join(SubSeq(Tokens, 8, FirstColon - 1))
                  = IF LanguageOf(st.metadata) # <<>>
                    THEN Join(<<"(">> \o LanguageOf(st.metadata)[1].value
                              \o <<")">>)
                    ELSE ""

\* no argument was given, or the first one begins with '-'
NoPath == Len(argv) = 1 \/ (argv[2] # <<>> /\ Head(argv[2]) = "-")

\* the program has exited with the status n
Exits(place, code, n) == place = "exited" /\ code = n

\* the places of the program inside the formatter, dump_format
InFormatter(place) ==
    place \in {"dump_format", "programs", "program_streams", "streams"}

\* C20: main exits 1 without opening anything when no argument is given or
\* the first argument begins with '-', exits 1 without entering dump_format
\* when open_input_file fails, and otherwise enters dump_format exactly once,
\* on the opened container, closes the container and exits 0.
C20_ExitCodes ==
    [][/\ pc # "exited"
       /\ pc = "main" =>
             IF NoPath
             THEN Exits(pc', exit_code', 1) /\ fmt_ctx' = NULL
             ELSE pc' = "open" /\ exit_code' = NoExit /\ fmt_ctx' = NULL
       /\ pc = "open" =>
             \/ Exits(pc', exit_code', 1) /\ out' = <<>>
             \/ /\ pc' = "dump_format"
                /\ fmt_ctx' = <<file>>
                /\ exit_code' = NoExit
       /\ pc' = "dump_format" => pc = "open"
       /\ InFormatter(pc) =>
             /\ pc' = "close" \/ (InFormatter(pc') /\ pc' # "dump_format")
             /\ fmt_ctx' = fmt_ctx
             /\ exit_code' = NoExit
       /\ pc = "close" => Exits(pc', exit_code', 0) /\ fmt_ctx' = NULL
       /\ Exits(pc', exit_code', 0) => pc = "close"]_vars

\* a path was given, the file was opened and reported, closed, and the
\* program has exited with 0
C20_Witness ==
    /\ Exits(pc, exit_code, 0)
    /\ ~NoPath
    /\ fmt_ctx = NULL
    /\ Count("header", "Input") = 1
    /\ Len(file.streams) >= 1

C22_HeaderOnly ==
    (pc = "ret" /\ arg.enc.codec_type \notin {"video", "audio", "data", "subtitle"}) =>
        LET enc   == arg.enc
            named == <<IF enc.codec_type = "attachment" THEN "attachment"
                       ELSE "unknown", ": ", enc.codec_name>>
                     \o (IF enc.profile # NULL
                         THEN <<" (", enc.profile[1], ")">> ELSE <<>>)
        IN  /\ Len(Tokens) = Len(named) + (IF enc.codec_tag # 0 THEN 5 ELSE 0)
            /\ SubSeq(Tokens, 1, Len(named)) = named
            /\ enc.codec_tag # 0 =>
                  /\ Tokens[Len(named) + 1] = " ("
                  /\ Tokens[Len(named) + 2] = enc.fourcc
                  /\ Tokens[Len(named) + 3] = " / 0x"
                  /\ Tokens[Len(named) + 5] = ")"
            /\ \A t \in 1..Len(Tokens) : Tokens[t] \notin {" kb/s", ", max. "}

\* an attachment with a profile, a picture size, a bit rate and a maximum
\* rate has been written as its header alone
C22_Witness ==
    /\ pc = "ret"
    /\ arg.enc.codec_type = "attachment"
    /\ arg.enc.bit_rate = I64(128000)
    /\ arg.enc.rc_max_rate = I64(2500000)
    /\ arg.enc.width = 640
    /\ arg.enc.codec_tag = 0
    /\ Tokens = <<"attachment", ": ", "ttf", " (", "Main", ")">>

\* the place of byte t within its run: the distance to the last control
\* byte before it, or to the start of the value
PlaceInRun(value, t) ==
    IF \E u \in 1..(t - 1) : value[u] \in {BS, LF, VT, FF, CR}
    THEN t - (CHOOSE u \in 1..(t - 1) :
                 /\ value[u] \in {BS, LF, VT, FF, CR}
                 /\ \A u2 \in (u + 1)..(t - 1) :
                       value[u2] \notin {BS, LF, VT, FF, CR})
    ELSE t

\* the value without the bytes that lie beyond the 255th of their run
Capped(value) ==
    LET at   == [t \in 1..Len(value) |-> t]
        kept == SelectSeq(at, LAMBDA t :
                              \/ value[t] \in {BS, LF, VT, FF, CR}
                              \/ PlaceInRun(value, t) <= 255)
    IN  [t \in 1..Len(kept) |-> value[kept[t]]]

\* the text of the bytes from lo to hi of a value, control bytes handled
RECURSIVE TextBetween(_, _, _, _)
TextBetween(value, lo, hi, indent) ==
    IF lo > hi THEN <<>>
    ELSE IF lo = hi THEN ByteText(value[lo], indent)
    ELSE LET mid == (lo + hi) \div 2
         IN  TextBetween(value, lo, mid, indent)
             \o TextBetween(value, mid + 1, hi, indent)

\* the text of a whole value, control bytes handled
WholeText(value, indent) == TextBetween(value, 1, Len(value), indent)

\* every run of the value is at most 255 bytes long
ShortRuns(value) ==
    \A t \in 1..Len(value) :
       value[t] \in {BS, LF, VT, FF, CR} \/ PlaceInRun(value, t) <= 255

\* the tokens of the rendered value: those after the key prefix and before
\* the final line break
Rendered23 == SubSeq(Tokens, 3 + 2 + 16 + 1 + 1, Len(Tokens) - 1)

\* C23: dump_metadata writes of a run of non-control bytes longer than 255
\* bytes the first 255 bytes only and skips the rest of the run; what it
\* writes is the value with its control bytes handled only when every run is
\* at most 255 bytes long.
C23_RunCappedAt255 ==
    pc = "ret" =>
        LET value == arg.m[1].value
        IN  /\ SubSeq(Tokens, 1, 3 + 2 + 16 + 1)
                  = <<arg.indent, "Metadata:", "\n", arg.indent, "  ">>
                    \o PaddedKey(arg.m[1].key) \o <<": ">>
            /\ Tokens[Len(Tokens)] = "\n"
            /\ Rendered23 = WholeText(Capped(value), arg.indent)
            /\ (Rendered23 = WholeText(value, arg.indent)) = ShortRuns(value)

\* a run of 256 bytes, a line feed and a run of 300 bytes have been written
\* as 255 bytes, the line break and continuation, and 255 bytes
C23_Witness ==
    /\ pc = "ret"
    /\ arg.m[1].value = Run(256) \o <<LF>> \o Run(300)
    /\ Cardinality({t \in 1..Len(Rendered23) : Rendered23[t] = "a"}) = 510
    /\ \A t \in 1..Len(Rendered23) : Rendered23[t] # "b"
    /\ \E t \in 1..Len(Rendered23) : Rendered23[t] = "\n"

\* C24: when the container has at least one program, the "  No Program" line
\* is present if and only if at least one stream is handed to
\* dump_stream_format in the final pass over the streams no program has
\* shown, also when some stream is listed by more than one program.
C24_NoProgramIffUnassigned ==
    (Returned /\ ~MarkerFailed /\ Len(fmt_ctx[1].programs) >= 1) =>
        (Count("no_program", "  No Program") = 1)
            = (\E s \in StreamIndexes(fmt_ctx[1]) :
                  Rendered("stream", s) + Dropped("stream", s) >= 1)

====
